---- MODULE Spec2Model ----
(***************************************************************************)
(* Model of chatbot.py: the chain registry, the per-chain provider cache,  *)
(* the network switch, and the generic contract write/read layer.          *)
(*                                                                         *)
(* The CdpWalletProvider, AgentKit and the chain RPC are external: every   *)
(* call into them either returns or raises, chosen by the environment.  A  *)
(* handler is one action; the environment's choices for one run of a       *)
(* handler are its parameters: the chain the constructed provider reports, *)
(* the first call that raises (failAt) and the message it raises with.     *)
(*                                                                         *)
(* Seven specifications share the state: Spec (the functions called one   *)
(* at a time), ToolSpec (the tool functions the agent calls, on their      *)
(* input strings), BridgeSpec (a bridging carried out as burn, switch,     *)
(* mint), RaceSpec (two tool calls interleaved line by line), BackendSpec  *)
(* (the tools against a token ledger per chain), CacheSpec (switch,        *)
(* get-or-create and verify with room for a third provider object) and     *)
(* ModeSpec (choose_mode and the chat and autonomous loops of main).       *)
(***************************************************************************)
EXTENDS Integers, Sequences, FiniteSets, TLC

VARIABLES
    current_chain_id,        \* chatbot.py:367
    wallet_provider,         \* chatbot.py:366  (None or a provider object)
    wallet_providers_cache,  \* chatbot.py:368  (chain id -> provider object)
    agentkit,                \* chatbot.py:369  (None or the provider bound in it)
    wallet_data,             \* contents of wallet_data.txt (chatbot.py:87)
    providers,               \* the provider objects constructed so far
    phase,                   \* position of main(): start, running, crashed
    persisted,               \* the provider objects whose exported wallet was
                             \* written to wallet_data.txt (chatbot.py:525-526,
                             \* 832-834)
    bridge,                  \* the bridging the agent is carrying out by the
                             \* instruction of chatbot.py:923, and how far it got
    threads,                 \* the tool calls running at the same time, each at
                             \* a line of its function with its local variables
    agent_tools,             \* the provider bound in the tools the agent was
                             \* created with (chatbot.py:862, 905-926), or None
    console,                 \* main() after initialize_agent: the mode loop it
                             \* is in, the lines read and the prompts sent
    backend,                 \* the chain backend the providers talk to: the
                             \* token ledger of the contract on each chain
    last                     \* the handler run whose result the caller has not yet
                             \* taken: its input (arg, provider), the globals before
                             \* it (pre), the return taken (path), the result, the
                             \* external calls made, the transaction sent

vars == <<current_chain_id, wallet_provider, wallet_providers_cache, agentkit,
          wallet_data, providers, phase, persisted, bridge, threads, agent_tools,
          backend, console, last>>

----------------------------------------------------------------------------
(* Bounds *)

\* Number of registry entries (in registry order) the model carries.
NumChains == 2

\* Number of provider objects constructed in one run.
MaxProviders == 2

\* Number of provider objects constructed in one run of the session that
\* only switches and fills the cache (CacheSpec).
MaxCacheProviders == 3

\* Number of lines main() reads in choose_mode, and in chat mode.
MaxLines == 3

\* Number of prompts autonomous mode sends.
MaxPrompts == 5

\* Number of transactions the chain backend takes in one run.
MaxTransactions == 2

----------------------------------------------------------------------------
(* The registry: SUPPORTED_CHAINS, chatbot.py:100-161 *)

RegistryOrder ==
    <<"84532", "11155111", "421614", "11155420", "8453",
      "1", "42161", "10", "80001", "137">>

RegistryTable ==
    [c \in {RegistryOrder[i] : i \in 1..Len(RegistryOrder)} |->
        CASE c = "84532"    -> [name |-> "Base Sepolia",
                                contract_address |-> "0xEBE8Ca83dfFeaa2288a70B4f1e29EcD089d325E2",
                                explorer_url |-> "https://sepolia.basescan.org"]
          [] c = "11155111" -> [name |-> "Ethereum Sepolia",
                                contract_address |-> "0xEBE8Ca83dfFeaa2288a70B4f1e29EcD089d325E2",
                                explorer_url |-> "https://sepolia.etherscan.io"]
          [] c = "421614"   -> [name |-> "Arbitrum Sepolia",
                                contract_address |-> "0xEBE8Ca83dfFeaa2288a70B4f1e29EcD089d325E2",
                                explorer_url |-> "https://sepolia.arbiscan.io"]
          [] c = "11155420" -> [name |-> "Optimism Sepolia",
                                contract_address |-> "0xEBE8Ca83dfFeaa2288a70B4f1e29EcD089d325E2",
                                explorer_url |-> "https://sepolia-optimism.etherscan.io"]
          [] c = "8453"     -> [name |-> "Base Mainnet",
                                contract_address |-> "0xEBE8Ca83dfFeaa2288a70B4f1e29EcD089d325E2",
                                explorer_url |-> "https://basescan.org"]
          [] c = "1"        -> [name |-> "Ethereum Mainnet",
                                contract_address |-> "0xEBE8Ca83dfFeaa2288a70B4f1e29EcD089d325E2",
                                explorer_url |-> "https://etherscan.io"]
          [] c = "42161"    -> [name |-> "Arbitrum One",
                                contract_address |-> "0xEBE8Ca83dfFeaa2288a70B4f1e29EcD089d325E2",
                                explorer_url |-> "https://arbiscan.io"]
          [] c = "10"       -> [name |-> "Optimism",
                                contract_address |-> "0xEBE8Ca83dfFeaa2288a70B4f1e29EcD089d325E2",
                                explorer_url |-> "https://optimistic.etherscan.io"]
          [] c = "80001"    -> [name |-> "Polygon Mumbai",
                                contract_address |-> "0xEBE8Ca83dfFeaa2288a70B4f1e29EcD089d325E2",
                                explorer_url |-> "https://mumbai.polygonscan.com"]
          [] OTHER          -> [name |-> "Polygon",
                                contract_address |-> "0xEBE8Ca83dfFeaa2288a70B4f1e29EcD089d325E2",
                                explorer_url |-> "https://polygonscan.com"]]

\* SUPPORTED_CHAINS.keys(), in insertion order.
SupportedKeys == SubSeq(RegistryOrder, 1, NumChains)

SupportedSet == {SupportedKeys[i] : i \in 1..Len(SupportedKeys)}

SUPPORTED_CHAINS == [c \in SupportedSet |-> RegistryTable[c]]

DEFAULT_CHAIN_ID == "84532"

\* A chain id that is no key of the registry (the spec's example input).
UnsupportedId == "99999"

\* The ids a caller passes to switch_network.
InputIds == SupportedSet \cup {UnsupportedId}

\* The chain identities a provider can report.
ReportedIds == SupportedSet \cup {UnsupportedId}

----------------------------------------------------------------------------
(* Values of the environment *)

None == 0

\* str(e) of the exceptions the external calls raise.
Msgs == {"connection refused", "timed out"}

\* Transaction hashes a submission returns.
TxHashes == {"0xaa", "0xbb"}

\* Values a contract read returns.
ReadValues == {"0", "100"}

WriteFunctions == {"crosschainMint", "crosschainBurn"}

ReadFunctions == {"balanceOf"}

\* wallet_data.txt: absent, or the serialized wallet it holds.
NoFile == "absent"

StoredWallet == "w0"

\* wallet_data.txt after open(..., "w") and no write yet (chatbot.py:525,
\* 832-833).
EmptyFile == ""

\* The wallet a provider creates when it is constructed from an empty config.
NewWallet(p) == "w" \o ToString(p)

----------------------------------------------------------------------------
(* Strings *)

StartsWith(s, prefix) ==
    /\ Len(s) >= Len(prefix)
    /\ SubSeq(s, 1, Len(prefix)) = prefix

Contains(s, sub) ==
    \E i \in 1..(Len(s) - Len(sub) + 1) : SubSeq(s, i, i + Len(sub) - 1) = sub

RECURSIVE Join(_, _)
\* sep.join(keys)
Join(keys, sep) ==
    IF Len(keys) = 0 THEN ""
    ELSE IF Len(keys) = 1 THEN keys[1]
    ELSE keys[1] \o sep \o Join(Tail(keys), sep)

----------------------------------------------------------------------------
(* Chain helpers, chatbot.py:374-390.  Each raises ValueError when the     *)
(* chain id is no registry key; callers test InRegistry first and take the *)
(* exception path with NotSupportedError as its message.                   *)

InRegistry(chain_id) == chain_id \in DOMAIN SUPPORTED_CHAINS

NotSupportedError(chain_id) == "Chain ID " \o chain_id \o " not supported"

get_contract_address(chain_id) == SUPPORTED_CHAINS[chain_id].contract_address

get_chain_name(chain_id) == SUPPORTED_CHAINS[chain_id].name

get_explorer_url(chain_id) == SUPPORTED_CHAINS[chain_id].explorer_url

ProviderChain(p) == providers[p].chain

ProviderIds == 1..Len(providers)

----------------------------------------------------------------------------
(* get_cdp_wallet_provider_for_chain, chatbot.py:473-528.                  *)
(* st is [cache, providers, data]; the result carries the new st, the      *)
(* returned provider (ret), whether an exception left the function (exc,   *)
(* with its message), the calls made, in order, and the providers whose    *)
(* exported wallet the call wrote to the file (written).                   *)

\* chatbot.py:491-505: the wallet of the provider constructed from the
\* config; without wallet data, or with an empty string for it, the provider
\* creates a wallet.
ConfigWallet(data, p) == IF data \in {NoFile, EmptyFile} THEN NewWallet(p) ELSE data

\* chatbot.py:521: wallet_providers_cache[chain_id] = provider
CachePut(cache, chain_id, p) ==
    [c \in DOMAIN cache \cup {chain_id} |-> IF c = chain_id THEN p ELSE cache[c]]

\* Mutant of CacheDel: the entry of the target is left in the cache.
CacheDel_Keeps(cache, chain_id) == cache

\* Mutant of CacheDel: the cache is cleared.
CacheDel_All(cache, chain_id) == [c \in {} |-> None]

\* chatbot.py:423-424: del wallet_providers_cache[new_chain_id]
CacheDel(cache, chain_id) == [c \in DOMAIN cache \ {chain_id} |-> cache[c]]

ReadFileCalls(data) ==
    IF data = NoFile THEN <<"os.path.exists">> ELSE <<"os.path.exists", "file.read">>

\* Mutant of CacheKey: the provider is stored under the chain it reports.
CacheKey_Reported(chain_id, reported) == reported

\* chatbot.py:513-521: the key the new provider is stored under is the chain
\* id asked for; a report of another chain is printed and has no effect.
CacheKey(chain_id, reported) == chain_id

\* Mutant of CacheHit: the cache is never consulted.
CacheHit_Never(cache, chain_id) == FALSE

\* chatbot.py:487
CacheHit(cache, chain_id) == chain_id \in DOMAIN cache

get_cdp_wallet_provider_for_chain(st, chain_id, reported, failAt, msg) ==
    IF CacheHit(st.cache, chain_id)
    THEN \* chatbot.py:487-489: cache hit
         [cache |-> st.cache, providers |-> st.providers, data |-> st.data,
          ret |-> st.cache[chain_id], exc |-> FALSE, msg |-> "",
          calls |-> <<"cache.contains", "cache.get">>, written |-> {}]
    ELSE
    LET p      == Len(st.providers) + 1
        obj    == [chain |-> reported, wallet |-> ConfigWallet(st.data, p)]
        c0     == <<"cache.contains">> \o ReadFileCalls(st.data) \o <<"CdpWalletProvider">>
    IN  IF failAt = "construct"
        THEN \* chatbot.py:507 raises
             [cache |-> st.cache, providers |-> st.providers, data |-> st.data,
              ret |-> None, exc |-> TRUE, msg |-> msg, calls |-> c0,
              written |-> {}]
        ELSE IF failAt = "get_network"
        THEN \* chatbot.py:510 raises: the object is dropped, nothing refers to it
             [cache |-> st.cache, providers |-> st.providers, data |-> st.data,
              ret |-> None, exc |-> TRUE, msg |-> msg,
              calls |-> c0 \o <<"get_network">>, written |-> {}]
        ELSE IF failAt = "export"
        THEN \* chatbot.py:524 raises after the cache store of line 521
             [cache |-> CachePut(st.cache, CacheKey(chain_id, reported), p),
              providers |-> Append(st.providers, obj), data |-> st.data,
              ret |-> None, exc |-> TRUE, msg |-> msg,
              calls |-> c0 \o <<"get_network", "cache.put", "export_wallet">>,
              written |-> {}]
        ELSE \* chatbot.py:513-528: a mismatching report is only printed
             [cache |-> CachePut(st.cache, CacheKey(chain_id, reported), p),
              providers |-> Append(st.providers, obj), data |-> obj.wallet,
              ret |-> p, exc |-> FALSE, msg |-> "",
              calls |-> c0 \o <<"get_network", "cache.put", "export_wallet", "file.write">>,
              written |-> {p}]

\* net.chain_id of provider p among the providers of st.
providers_chain(st, p) == st.providers[p].chain

\* The failure points of get_cdp_wallet_provider_for_chain on a cache miss.
CreateFails == {"construct", "get_network", "export"}

----------------------------------------------------------------------------
(* switch_network, chatbot.py:406-470.                                     *)

\* chatbot.py:415
Supported(new_chain_id) == new_chain_id \in DOMAIN SUPPORTED_CHAINS

\* Mutant of UnsupportedMessage: the supported ids are not listed.
UnsupportedMessage_NoListing(new_chain_id) ==
    "Error: Chain ID " \o new_chain_id \o " not supported."

\* chatbot.py:416
UnsupportedMessage(new_chain_id) ==
    "Error: Chain ID " \o new_chain_id \o " not supported. Must be one of: "
        \o Join(SupportedKeys, ", ")

\* Mutant of SameChain: the early return of line 418 is never taken.
SameChain_Never(new_chain_id) == FALSE

\* chatbot.py:418
SameChain(new_chain_id) == new_chain_id = current_chain_id

\* chatbot.py:419
AlreadyOnMessage ==
    "Already on " \o get_chain_name(current_chain_id)
        \o " (Chain ID: " \o current_chain_id \o ")"

\* Mutant of IdentityMatches: the report of the new provider is not compared.
IdentityMatches_Unchecked(net_chain_id, new_chain_id) == TRUE

\* chatbot.py:433: the identity check passes
IdentityMatches(net_chain_id, new_chain_id) == net_chain_id = new_chain_id

\* chatbot.py:434
MismatchMessage(new_chain_id, net_chain_id) ==
    "Error: Provider chain mismatch. Expected " \o new_chain_id
        \o ", got " \o net_chain_id

\* chatbot.py:442
ConnectingMessage(new_chain_id, msg) ==
    "Error connecting to " \o SUPPORTED_CHAINS[new_chain_id].name \o ": " \o msg

\* chatbot.py:470
SwitchingMessage(new_chain_id, msg) ==
    "Error switching to chain " \o new_chain_id \o ": " \o msg

\* chatbot.py:468
SwitchedMessage(chain_id) ==
    "Switched to " \o get_chain_name(chain_id) \o " (Chain ID: " \o chain_id \o ")"

\* The first call of a switch that raises, if any.
SwitchFails ==
    CreateFails \cup {"identity_get_network", "get_balance", "AgentKit",
                      "final_get_network"}

\* A return of switch_network that leaves the globals as they are, apart from
\* the cache, the constructed providers and the snapshot given in g.
SwitchKeeps(g, path, exc, result, calls) ==
    [chain |-> current_chain_id, provider |-> wallet_provider, kit |-> agentkit,
     cache |-> g.cache, providers |-> g.providers, data |-> g.data,
     written |-> g.written,
     path |-> path, exc |-> exc, result |-> result, calls |-> calls]

\* A return of switch_network after the assignments of lines 445-446; kit is
\* the agentkit global at that return.
SwitchCommitted(g, new_chain_id, kit, path, exc, result, calls) ==
    [chain |-> new_chain_id, provider |-> g.ret, kit |-> kit,
     cache |-> g.cache, providers |-> g.providers, data |-> g.data,
     written |-> g.written,
     path |-> path, exc |-> exc, result |-> result, calls |-> calls]

\* The return of line 429 (a falsy provider) has no branch here: the function
\* of lines 473-528 returns a CdpWalletProvider object or raises.
switch_network(new_chain_id, reported, failAt, msg) ==
    LET here == [cache |-> wallet_providers_cache, providers |-> providers,
                 data |-> wallet_data, written |-> {}]
    IN
    IF ~Supported(new_chain_id)
    THEN SwitchKeeps(here, "unsupported", "", UnsupportedMessage(new_chain_id), << >>)
    ELSE IF SameChain(new_chain_id)
    THEN SwitchKeeps(here, "already_on", "", AlreadyOnMessage, << >>)
    ELSE
    LET hit == new_chain_id \in DOMAIN wallet_providers_cache
        c1  == IF hit THEN <<"cache.contains", "cache.del">> ELSE <<"cache.contains">>
        g   == get_cdp_wallet_provider_for_chain(
                   [here EXCEPT !.cache = CacheDel(wallet_providers_cache, new_chain_id)],
                   new_chain_id, reported, failAt, msg)
        c2  == c1 \o g.calls
        c3  == c2 \o <<"get_network">>
        c4  == c3 \o <<"get_balance">>
        c5  == c4 \o <<"AgentKit">>
        c6  == c5 \o <<"get_network">>
    IN
    IF g.exc
    THEN SwitchKeeps(g, "create_raised", g.msg, SwitchingMessage(new_chain_id, g.msg), c2)
    ELSE IF failAt = "identity_get_network"
    THEN SwitchKeeps(g, "identity_raised", msg, SwitchingMessage(new_chain_id, msg), c3)
    ELSE IF ~IdentityMatches(providers_chain(g, g.ret), new_chain_id)
    THEN SwitchKeeps(g, "mismatch", "",
                     MismatchMessage(new_chain_id, providers_chain(g, g.ret)), c3)
    ELSE IF failAt = "get_balance"
    THEN SwitchKeeps(g, "probe_failed", msg, ConnectingMessage(new_chain_id, msg), c4)
    ELSE IF failAt = "AgentKit"
    THEN \* chatbot.py:449 raises after lines 445-446; agentkit keeps its value
         SwitchCommitted(g, new_chain_id, agentkit, "rebuild_raised", msg,
                         SwitchingMessage(new_chain_id, msg), c5)
    ELSE IF failAt = "final_get_network"
    THEN \* chatbot.py:465 raises
         SwitchCommitted(g, new_chain_id, g.ret, "final_raised", msg,
                         SwitchingMessage(new_chain_id, msg), c6)
    ELSE IF ~InRegistry(new_chain_id)
    THEN \* chatbot.py:468: get_chain_name() raises ValueError
         SwitchCommitted(g, new_chain_id, g.ret, "final_raised",
                         NotSupportedError(new_chain_id),
                         SwitchingMessage(new_chain_id, NotSupportedError(new_chain_id)), c6)
    ELSE SwitchCommitted(g, new_chain_id, g.ret, "switched", "",
                         SwitchedMessage(new_chain_id), c6)

----------------------------------------------------------------------------
(* invoke_contract_function and read_contract, chatbot.py:534-613.         *)

\* Mutant of ChainAffinity: the provider's chain is not compared.
ChainAffinity_Unchecked(net_chain_id) == TRUE

\* chatbot.py:550 and 596: the chain-affinity check passes
ChainAffinity(net_chain_id) == net_chain_id = current_chain_id

\* chatbot.py:551
WriteMismatchMessage(net_chain_id) ==
    "Chain mismatch: Wallet on chain " \o net_chain_id
        \o ", but global chain is " \o current_chain_id

\* chatbot.py:597
ReadMismatchMessage(net_chain_id) ==
    "Chain mismatch: provider on chain " \o net_chain_id
        \o ", global chain is " \o current_chain_id

\* Mutant of ErrorResult: the exception leaves the function.
ErrorResult_Propagates(message) == [raised |-> message]

\* chatbot.py:580-581 and 612-613: except Exception as e: return {"error": str(e)}
ErrorResult(message) == [error |-> message]

\* str(e) of the AttributeError raised by None.get_network()
NoneTypeError == "'NoneType' object has no attribute 'get_network'"

\* Mutant of ExplorerLink: the "/tx/" segment is dropped.
ExplorerLink_NoTxSegment(explorer_url, tx_hash) == explorer_url \o "/" \o tx_hash

\* chatbot.py:578
ExplorerLink(explorer_url, tx_hash) == explorer_url \o "/tx/" \o tx_hash

\* The receipt of a transaction, opaque to the program.
Receipt(tx_hash) == "receipt of " \o tx_hash

NoTx == << >>

\* chatbot.py:559-565: the submission as the provider receives it.
Submission(provider, contract_address, function_name, tx_hash) ==
    <<[via |-> provider, on |-> ProviderChain(provider),
       contract_address |-> contract_address,
       function_name |-> function_name, tx_hash |-> tx_hash]>>

InvokeFails == {"get_network", "transact_contract", "wait_for_transaction_receipt"}

\* Mutant of SubmitThenWait: the result is made without the receipt wait.
SubmitThenWait_NoWait == <<"get_network", "transact_contract">>

\* chatbot.py:549-568: the calls of a write whose submission returned
SubmitThenWait ==
    <<"get_network", "transact_contract", "wait_for_transaction_receipt">>

invoke_contract_function(provider, function_name, failAt, msg, tx_hash) ==
    IF provider = None
    THEN [path |-> "raised", exc |-> NoneTypeError,
          result |-> ErrorResult(NoneTypeError),
          calls |-> << >>, tx |-> NoTx]
    ELSE IF failAt = "get_network"
    THEN [path |-> "raised", exc |-> msg, result |-> ErrorResult(msg),
          calls |-> <<"get_network">>, tx |-> NoTx]
    ELSE IF ~ChainAffinity(ProviderChain(provider))
    THEN [path |-> "mismatch", exc |-> "",
          result |-> [error |-> WriteMismatchMessage(ProviderChain(provider))],
          calls |-> <<"get_network">>, tx |-> NoTx]
    ELSE IF ~InRegistry(current_chain_id)
    THEN \* chatbot.py:556: get_contract_address() raises ValueError
         [path |-> "raised", exc |-> NotSupportedError(current_chain_id),
          result |-> ErrorResult(NotSupportedError(current_chain_id)),
          calls |-> <<"get_network">>, tx |-> NoTx]
    ELSE
    LET sub == Submission(provider, get_contract_address(current_chain_id),
                          function_name, tx_hash)
    IN
    IF failAt = "transact_contract"
    THEN [path |-> "submit_raised", exc |-> msg, result |-> ErrorResult(msg),
          calls |-> <<"get_network", "transact_contract">>, tx |-> NoTx]
    ELSE IF failAt = "wait_for_transaction_receipt"
    THEN [path |-> "wait_raised", exc |-> msg, result |-> ErrorResult(msg),
          calls |-> SubmitThenWait, tx |-> sub]
    ELSE [path |-> "success", exc |-> "",
          result |-> [tx_hash |-> tx_hash,
                      receipt |-> Receipt(tx_hash),
                      chain_id |-> current_chain_id,
                      chain_name |-> get_chain_name(current_chain_id),
                      explorer_url |-> ExplorerLink(get_explorer_url(current_chain_id),
                                                    tx_hash)],
          calls |-> SubmitThenWait, tx |-> sub]

ReadFails == {"get_network", "read_contract"}

read_contract(provider, function_name, failAt, msg, value) ==
    IF provider = None
    THEN [path |-> "raised", exc |-> NoneTypeError,
          result |-> ErrorResult(NoneTypeError),
          calls |-> << >>, tx |-> NoTx]
    ELSE IF failAt = "get_network"
    THEN [path |-> "raised", exc |-> msg, result |-> ErrorResult(msg),
          calls |-> <<"get_network">>, tx |-> NoTx]
    ELSE IF ~ChainAffinity(ProviderChain(provider))
    THEN [path |-> "mismatch", exc |-> "",
          result |-> [error |-> ReadMismatchMessage(ProviderChain(provider))],
          calls |-> <<"get_network">>, tx |-> NoTx]
    ELSE IF ~InRegistry(current_chain_id)
    THEN \* chatbot.py:602: get_contract_address() raises ValueError
         [path |-> "raised", exc |-> NotSupportedError(current_chain_id),
          result |-> ErrorResult(NotSupportedError(current_chain_id)),
          calls |-> <<"get_network">>, tx |-> NoTx]
    ELSE IF failAt = "read_contract"
    THEN [path |-> "read_raised", exc |-> msg, result |-> ErrorResult(msg),
          calls |-> <<"get_network", "read_contract">>, tx |-> NoTx]
    ELSE [path |-> "success", exc |-> "",
          result |-> [result |-> value, chain_id |-> current_chain_id,
                      chain_name |-> get_chain_name(current_chain_id)],
          calls |-> <<"get_network", "read_contract">>, tx |-> NoTx]

----------------------------------------------------------------------------
(* initialize_agent, chatbot.py:809-930.  An exception leaves it and ends  *)
(* main(), which catches nothing (chatbot.py:1014-1016).  tools is the     *)
(* provider bound in the tools of get_langchain_tools(agentkit) that the   *)
(* agent is created with (chatbot.py:862, 905-926).                        *)

InitFails == {"construct", "export", "get_network", "AgentKit"}

\* Mutant of InitSnapshot: the file is left as it was found.
InitSnapshot_Kept(found, exported) == found

\* chatbot.py:832-834: wallet_data.txt after the write, whatever it held: the
\* export of the provider constructed at line 827.
InitSnapshot(found, exported) == exported

initialize_agent(reported, failAt, msg) ==
    LET p   == Len(providers) + 1
        obj == [chain |-> reported, wallet |-> ConfigWallet(wallet_data, p)]
        c0  == ReadFileCalls(wallet_data) \o <<"CdpWalletProvider">>
        c1  == c0 \o <<"file.open_w", "export_wallet">>
        c2  == c1 \o <<"file.write", "get_network">>
        c3  == c2 \o <<"AgentKit">>
    IN
    IF failAt = "construct"
    THEN [provider |-> None, kit |-> None, providers |-> providers,
          data |-> wallet_data, path |-> "raised", exc |-> msg, result |-> "",
          calls |-> c0, written |-> {}, tools |-> None]
    ELSE IF failAt = "export"
    THEN [provider |-> p, kit |-> None, providers |-> Append(providers, obj),
          data |-> EmptyFile, path |-> "raised", exc |-> msg, result |-> "",
          calls |-> c1, written |-> {}, tools |-> None]
    ELSE IF failAt = "get_network"
    THEN [provider |-> p, kit |-> None, providers |-> Append(providers, obj),
          data |-> InitSnapshot(wallet_data, obj.wallet), path |-> "raised",
          exc |-> msg, result |-> "",
          calls |-> c2, written |-> {p}, tools |-> None]
    ELSE IF failAt = "AgentKit"
    THEN [provider |-> p, kit |-> None, providers |-> Append(providers, obj),
          data |-> InitSnapshot(wallet_data, obj.wallet), path |-> "raised",
          exc |-> msg, result |-> "",
          calls |-> c3, written |-> {p}, tools |-> None]
    ELSE [provider |-> p, kit |-> p, providers |-> Append(providers, obj),
          data |-> InitSnapshot(wallet_data, obj.wallet), path |-> "returned",
          exc |-> "", result |-> "agent",
          calls |-> c3 \o <<"get_langchain_tools", "create_react_agent">>,
          written |-> {p}, tools |-> p]

----------------------------------------------------------------------------
(* Parsing of tool inputs: str.strip, str.split, int and float as the tool  *)
(* functions of chatbot.py:691-750 use them.                               *)

Char(s, i) == SubSeq(s, i, i)

IsSpace(c) == c \in {" ", "\t", "\n"}

RECURSIVE lstrip(_)
lstrip(s) ==
    IF Len(s) > 0 /\ IsSpace(Char(s, 1)) THEN lstrip(SubSeq(s, 2, Len(s))) ELSE s

RECURSIVE rstrip(_)
rstrip(s) ==
    IF Len(s) > 0 /\ IsSpace(Char(s, Len(s))) THEN rstrip(SubSeq(s, 1, Len(s) - 1))
    ELSE s

\* input_str.strip()
strip(s) == rstrip(lstrip(s))

RECURSIVE SplitFrom(_, _, _, _)
SplitFrom(s, i, word, parts) ==
    IF i > Len(s)
    THEN IF word = "" THEN parts ELSE Append(parts, word)
    ELSE IF IsSpace(Char(s, i))
    THEN SplitFrom(s, i + 1, "", IF word = "" THEN parts ELSE Append(parts, word))
    ELSE SplitFrom(s, i + 1, word \o Char(s, i), parts)

\* s.split(): the maximal runs of non-whitespace characters
split(s) == SplitFrom(s, 1, "", << >>)

DecimalDigits == "0123456789"

IsDigit(c) == \E d \in 0..9 : Char(DecimalDigits, d + 1) = c

DigitValue(c) == CHOOSE d \in 0..9 : Char(DecimalDigits, d + 1) = c

AllDigits(s) == Len(s) > 0 /\ \A i \in 1..Len(s) : IsDigit(Char(s, i))

HasSign(s) == Len(s) > 0 /\ Char(s, 1) \in {"+", "-"}

Unsigned(s) == IF HasSign(s) THEN SubSeq(s, 2, Len(s)) ELSE s

\* int(amt_str) returns: an optional sign and decimal digits, surrounding
\* whitespace allowed (digit-group underscores are not among the inputs)
IsInt(s) == AllDigits(Unsigned(strip(s)))

RECURSIVE DigitsValue(_, _)
DigitsValue(s, acc) ==
    IF s = "" THEN acc
    ELSE DigitsValue(SubSeq(s, 2, Len(s)), 10 * acc + DigitValue(Char(s, 1)))

\* int(amt_str)
ParseInt(s) ==
    LET t == strip(s)
        n == DigitsValue(Unsigned(t), 0)
    IN  IF HasSign(t) /\ Char(t, 1) = "-" THEN 0 - n ELSE n

\* Position of the decimal point of s, or 0.
PointAt(s) ==
    IF \E i \in 1..Len(s) : Char(s, i) = "."
    THEN CHOOSE i \in 1..Len(s) :
             Char(s, i) = "." /\ \A j \in 1..(i - 1) : Char(s, j) # "."
    ELSE 0

\* float(amt_str) returns, for the plain decimal forms (sign, digits, at most
\* one point); exponents, "inf" and "nan" are not among the inputs.
IsFloat(s) ==
    LET t == Unsigned(strip(s))
        k == PointAt(t)
        whole == SubSeq(t, 1, k - 1)
        frac  == SubSeq(t, k + 1, Len(t))
    IN  IF k = 0 THEN AllDigits(t)
        ELSE /\ whole = "" \/ AllDigits(whole)
             /\ frac = "" \/ AllDigits(frac)
             /\ ~(whole = "" /\ frac = "")

RECURSIVE DropLeadingZeros(_)
DropLeadingZeros(s) ==
    IF Len(s) > 1 /\ Char(s, 1) = "0" THEN DropLeadingZeros(SubSeq(s, 2, Len(s)))
    ELSE s

RECURSIVE DropTrailingZeros(_)
DropTrailingZeros(s) ==
    IF Len(s) > 1 /\ Char(s, Len(s)) = "0"
    THEN DropTrailingZeros(SubSeq(s, 1, Len(s) - 1))
    ELSE s

\* The decimal number float(amt_str) stands for, for a plain decimal of at
\* most 15 significant digits (str() and Decimal() give that number back):
\* its sign, the digits before the point without leading zeros and the
\* digits after the point without trailing zeros.
DecimalOf(s) ==
    LET t == strip(s)
        u == Unsigned(t)
        k == PointAt(u)
        whole == IF k = 0 THEN u ELSE SubSeq(u, 1, k - 1)
        frac  == IF k = 0 THEN "" ELSE SubSeq(u, k + 1, Len(u))
    IN  [neg   |-> HasSign(t) /\ Char(t, 1) = "-",
         whole |-> DropLeadingZeros(IF whole = "" THEN "0" ELSE whole),
         frac  |-> DropTrailingZeros(IF frac = "" THEN "0" ELSE frac)]

\* The number of zeros s begins with.
RECURSIVE LeadingZeros(_)
LeadingZeros(s) ==
    IF Len(s) > 0 /\ Char(s, 1) = "0" THEN 1 + LeadingZeros(SubSeq(s, 2, Len(s)))
    ELSE 0

\* repr of a float below 0.0001 in magnitude and not zero: one digit, the
\* other digits after a point, "e-" and the exponent in two digits at least.
ScientificStr(d) ==
    LET z == LeadingZeros(d.frac)
        digits == SubSeq(d.frac, z + 1, Len(d.frac))
        e == z + 1
    IN  (IF d.neg THEN "-" ELSE "")
            \o Char(digits, 1)
            \o (IF Len(digits) > 1 THEN "." \o SubSeq(digits, 2, Len(digits)) ELSE "")
            \o "e-" \o (IF e < 10 THEN "0" ELSE "") \o ToString(e)

\* str(float(amt_str)) for a plain decimal below 10^16 in magnitude: the
\* shortest decimal, with at least one fractional digit, and the scientific
\* form below 0.0001.
FloatStr(s) ==
    LET d == DecimalOf(s) IN
    IF d.whole = "0" /\ LeadingZeros(d.frac) >= 4 /\ LeadingZeros(d.frac) < Len(d.frac)
    THEN ScientificStr(d)
    ELSE (IF d.neg THEN "-" ELSE "") \o d.whole \o "." \o d.frac

----------------------------------------------------------------------------
(* Amounts of base units.  Python integers have no width; an amount is kept *)
(* as [hi, lo], standing for hi * Giga + lo with lo < Giga.                 *)

\* 10**9: the 10**18 of chatbot.py:565 is Giga * Giga.
Giga == 1000000000

Wei(hi, lo) == [hi |-> hi, lo |-> lo]

WeiZero == Wei(0, 0)

WeiAdd(a, b) ==
    LET lo == a.lo + b.lo IN Wei(a.hi + b.hi + (lo \div Giga), lo % Giga)

WeiLess(a, b) == a.hi < b.hi \/ (a.hi = b.hi /\ a.lo < b.lo)

\* a - b, for b not above a.
WeiSub(a, b) ==
    IF a.lo >= b.lo THEN Wei(a.hi - b.hi, a.lo - b.lo)
    ELSE Wei(a.hi - b.hi - 1, (a.lo + Giga) - b.lo)

RECURSIVE ZeroPad(_, _)
ZeroPad(s, n) == IF Len(s) >= n THEN s ELSE ZeroPad("0" \o s, n)

\* str() of the integer.
WeiStr(a) ==
    IF a.hi = 0 THEN ToString(a.lo) ELSE ToString(a.hi) \o ZeroPad(ToString(a.lo), 9)

\* The integer n (an amount a tool parsed with int()) as an amount.
WeiOf(n) == Wei(n \div Giga, n % Giga)

\* Mutant of NativeValue: the value is not passed on with the transaction.
NativeValue_Dropped(d) == WeiZero

\* chatbot.py:565: int(value * Decimal(10**18)) if value > 0 else 0, for the
\* decimal d (below 2 in magnitude): the digits of d moved by 18 places and
\* cut at the point.
NativeValue(d) ==
    LET frac18 == SubSeq(d.frac \o "000000000000000000", 1, 18) IN
    IF d.neg \/ (d.whole = "0" /\ LeadingZeros(d.frac) = Len(d.frac))
    THEN WeiZero
    ELSE Wei(DigitsValue(d.whole, 0) * Giga + DigitsValue(SubSeq(frac18, 1, 9), 0),
             DigitsValue(SubSeq(frac18, 10, 18), 0))

----------------------------------------------------------------------------
(* The domain operations, chatbot.py:619-670.  Each takes the result of    *)
(* the generic write or read and turns it into the message of the tool.    *)

IsError(resp) == "error" \in DOMAIN resp

\* chatbot.py:622, 633, 645, 654, 666
ErrorMessage(resp) == "Error: " \o resp.error

\* chatbot.py:623-626
MintedMessage(amount, to_address, explorer_url) ==
    "Successfully minted " \o ToString(amount) \o " tokens to " \o to_address
        \o " on " \o get_chain_name(current_chain_id) \o ".\nTransaction: "
        \o explorer_url

\* chatbot.py:634-637
BurnedMessage(amount, from_address, explorer_url) ==
    "Successfully burned " \o ToString(amount) \o " tokens from " \o from_address
        \o " on " \o get_chain_name(current_chain_id) \o ".\nTransaction: "
        \o explorer_url

\* chatbot.py:646
BalanceMessage(address, value) ==
    "Balance of " \o address \o " on " \o get_chain_name(current_chain_id)
        \o ": " \o value \o " tokens"

\* chatbot.py:656-659
DepositedMessage(eth_amount, explorer_url) ==
    "Successfully deposited " \o eth_amount \o " ETH on "
        \o get_chain_name(current_chain_id) \o ".\nTransaction: " \o explorer_url

\* chatbot.py:667-670
WithdrewMessage(amount, explorer_url) ==
    "Successfully withdrew " \o ToString(amount) \o " tokens on "
        \o get_chain_name(current_chain_id) \o ".\nTransaction: " \o explorer_url

\* The return of a domain operation: the run of the generic layer (resp)
\* with the message in place of the result record, and the provider the
\* operation was given.
DomainReturn(provider, resp, message) ==
    [provider |-> provider, path |-> resp.path, exc |-> resp.exc, raised |-> FALSE,
     result |-> IF IsError(resp.result) THEN ErrorMessage(resp.result) ELSE message,
     calls |-> resp.calls, tx |-> resp.tx]

\* chatbot.py:559-565: the run resp of invoke_contract_function, its
\* submission with the args and the value the call was given (value is the
\* amount of base units that line 565 makes of it).
WithPayload(resp, args, value) ==
    IF resp.tx = NoTx THEN resp
    ELSE [resp EXCEPT !.tx =
             <<[via |-> resp.tx[1].via, on |-> resp.tx[1].on,
                contract_address |-> resp.tx[1].contract_address,
                function_name |-> resp.tx[1].function_name,
                tx_hash |-> resp.tx[1].tx_hash,
                args |-> args, value |-> value]>>]

crosschain_mint(provider, to_address, amount, failAt, msg, tx_hash) ==
    LET resp == WithPayload(
                    invoke_contract_function(provider, "crosschainMint", failAt, msg,
                                             tx_hash),
                    <<to_address, amount>>, WeiZero)
    IN  DomainReturn(provider, resp,
                     MintedMessage(amount, to_address, resp.result.explorer_url))

crosschain_burn(provider, from_address, amount, failAt, msg, tx_hash) ==
    LET resp == WithPayload(
                    invoke_contract_function(provider, "crosschainBurn", failAt, msg,
                                             tx_hash),
                    <<from_address, amount>>, WeiZero)
    IN  DomainReturn(provider, resp,
                     BurnedMessage(amount, from_address, resp.result.explorer_url))

get_balance_of(provider, address, failAt, msg, value) ==
    LET r == read_contract(provider, "balanceOf", failAt, msg, value)
    IN  DomainReturn(provider, r, BalanceMessage(address, r.result.result))

\* eth_amount is the float, given as a text that float() reads to it.
deposit_native_eth(provider, eth_amount, failAt, msg, tx_hash) ==
    LET val  == DecimalOf(eth_amount)
        resp == WithPayload(
                    invoke_contract_function(provider, "deposit", failAt, msg, tx_hash),
                    << >>, NativeValue(val))
    IN  DomainReturn(provider, resp,
                     DepositedMessage(FloatStr(eth_amount), resp.result.explorer_url))

withdraw_tokens(provider, amount, failAt, msg, tx_hash) ==
    LET resp == WithPayload(
                    invoke_contract_function(provider, "withdraw", failAt, msg, tx_hash),
                    <<amount>>, WeiZero)
    IN  DomainReturn(provider, resp,
                     WithdrewMessage(amount, resp.result.explorer_url))

----------------------------------------------------------------------------
(* The tool functions, chatbot.py:691-803.                                 *)

\* Mutant of ActiveProvider: the tools keep the provider of initialize_agent.
ActiveProvider_Initial == IF Len(providers) > 0 THEN 1 ELSE None

\* chatbot.py:702, 715, 725, 728, 742, 750: the tools read the global
\* wallet_provider when they are called
ActiveProvider == wallet_provider

\* A return of a tool before it passed anything to a provider.
ToolReturn(result) ==
    [provider |-> None, path |-> "invalid", exc |-> "", raised |-> FALSE,
     result |-> result, calls |-> << >>, tx |-> NoTx]

\* Mutant of ValidAddress: the prefix of the address is not looked at.
ValidAddress_Any(address) == TRUE

\* chatbot.py:696, 709, 719
ValidAddress(address) == StartsWith(address, "0x")

parse_mint_args(input_str, failAt, msg, tx_hash) ==
    LET parts == split(strip(input_str)) IN
    IF Len(parts) # 2
    THEN ToolReturn("Error: Must provide 'TO_ADDRESS AMOUNT'")
    ELSE IF ~ValidAddress(parts[1])
    THEN ToolReturn("Error: address must start with 0x")
    ELSE IF ~IsInt(parts[2])
    THEN ToolReturn("Error: amount must be integer")
    ELSE crosschain_mint(ActiveProvider, parts[1], ParseInt(parts[2]), failAt, msg,
                         tx_hash)

parse_burn_args(input_str, failAt, msg, tx_hash) ==
    LET parts == split(strip(input_str)) IN
    IF Len(parts) # 2
    THEN ToolReturn("Error: Must provide 'FROM_ADDRESS AMOUNT'")
    ELSE IF ~ValidAddress(parts[1])
    THEN ToolReturn("Error: address must start with 0x")
    ELSE IF ~IsInt(parts[2])
    THEN ToolReturn("Error: amount must be integer")
    ELSE crosschain_burn(ActiveProvider, parts[1], ParseInt(parts[2]), failAt, msg,
                         tx_hash)

\* str(e) of the AttributeError raised by None.get_balance()
NoneBalanceError == "'NoneType' object has no attribute 'get_balance'"

\* chatbot.py:733
ReadingBalanceMessage(msg) == "Error reading balance: " \o msg

\* chatbot.py:729-732
NativeBalanceMessage(local_balance, tok_str) ==
    "My wallet native balance on " \o get_chain_name(current_chain_id) \o ": "
        \o local_balance \o " wei\n" \o tok_str

parse_balance_of_args(input_str, failAt, msg, local_balance, value) ==
    LET addr == strip(input_str) IN
    IF ~ValidAddress(addr)
    THEN ToolReturn("Error: Provide a valid address that starts with 0x")
    ELSE IF ActiveProvider = None
    THEN [provider |-> None, path |-> "raised", exc |-> NoneBalanceError,
          raised |-> FALSE, result |-> ReadingBalanceMessage(NoneBalanceError),
          calls |-> << >>, tx |-> NoTx]
    ELSE IF failAt = "get_balance"
    THEN [provider |-> ActiveProvider, path |-> "raised", exc |-> msg,
          raised |-> FALSE, result |-> ReadingBalanceMessage(msg),
          calls |-> <<"get_balance">>, tx |-> NoTx]
    ELSE IF ~InRegistry(current_chain_id)
    THEN \* chatbot.py:726: get_chain_name() raises ValueError
         [provider |-> ActiveProvider, path |-> "raised",
          exc |-> NotSupportedError(current_chain_id), raised |-> FALSE,
          result |-> ReadingBalanceMessage(NotSupportedError(current_chain_id)),
          calls |-> <<"get_balance">>, tx |-> NoTx]
    ELSE
    LET r == get_balance_of(ActiveProvider, addr, failAt, msg, value)
    IN  [r EXCEPT !.result = NativeBalanceMessage(local_balance, r.result),
                  !.calls = <<"get_balance">> \o r.calls]

parse_deposit_eth_args(input_str, failAt, msg, tx_hash) ==
    LET amt_str == strip(input_str) IN
    IF ~IsFloat(amt_str)
    THEN ToolReturn("Error: Provide a valid float (e.g. 0.01)")
    ELSE deposit_native_eth(ActiveProvider, amt_str, failAt, msg, tx_hash)

parse_withdraw_args(input_str, failAt, msg, tx_hash) ==
    LET amt_str == strip(input_str) IN
    IF ~IsInt(amt_str)
    THEN ToolReturn("Error: Provide a valid integer")
    ELSE withdraw_tokens(ActiveProvider, ParseInt(amt_str), failAt, msg, tx_hash)

\* The return of a tool that runs switch_network or fills the cache: the
\* globals it leaves (as in the record r), and what the caller gets.
SessionToolReturn(r, path, raised, exc, result, calls) ==
    [chain |-> r.chain, provider |-> r.provider, kit |-> r.kit, cache |-> r.cache,
     providers |-> r.providers, data |-> r.data, written |-> r.written,
     path |-> path, raised |-> raised, exc |-> exc, result |-> result,
     calls |-> calls]

\* The globals as a tool finds them, in the shape of a return of switch_network.
Untouched ==
    [chain |-> current_chain_id, provider |-> wallet_provider, kit |-> agentkit,
     cache |-> wallet_providers_cache, providers |-> providers,
     data |-> wallet_data, written |-> {}]

RECURSIVE ListingLines(_)
\* chatbot.py:758: f"{cid}: {info['name']}" for each registry entry, in order
ListingLines(keys) ==
    IF Len(keys) = 0 THEN << >>
    ELSE <<keys[1] \o ": " \o SUPPORTED_CHAINS[keys[1]].name>>
             \o ListingLines(Tail(keys))

\* chatbot.py:759-763
ListingMessage(actual_chain_id) ==
    "Currently in global state: " \o get_chain_name(current_chain_id)
        \o " (Chain ID: " \o current_chain_id \o ")\nProvider actual chain_id: "
        \o actual_chain_id \o "\n\nSupported networks:\n"
        \o Join(ListingLines(SupportedKeys), "\n")

\* The first call of the switch tool that raises, if any.
SwitchToolFails == SwitchFails \cup {"get_network", "get_langchain_tools"}

\* chatbot.py:752-770.  The calls of lines 756 and 769 are outside any try:
\* an exception of theirs leaves the tool function.
parse_switch_network_args(input_str, reported, failAt, msg) ==
    LET chain_id == strip(input_str) IN
    IF chain_id = ""
    THEN IF wallet_provider = None
         THEN SessionToolReturn(Untouched, "raised", TRUE, NoneTypeError, "", << >>)
         ELSE IF failAt = "get_network"
         THEN SessionToolReturn(Untouched, "raised", TRUE, msg, "", <<"get_network">>)
         ELSE IF ~InRegistry(current_chain_id)
         THEN SessionToolReturn(Untouched, "raised", TRUE,
                                NotSupportedError(current_chain_id), "",
                                <<"get_network">>)
         ELSE SessionToolReturn(Untouched, "listing", FALSE, "",
                                ListingMessage(ProviderChain(wallet_provider)),
                                <<"get_network">>)
    ELSE
    LET ans == switch_network(chain_id, reported, failAt, msg) IN
    IF ans.kit = None
    THEN SessionToolReturn(ans, ans.path, FALSE, ans.exc, ans.result, ans.calls)
    ELSE IF failAt = "get_langchain_tools"
    THEN SessionToolReturn(ans, "raised", TRUE, msg, "",
                           ans.calls \o <<"get_langchain_tools">>)
    ELSE SessionToolReturn(ans, ans.path, FALSE, ans.exc, ans.result,
                           ans.calls \o <<"get_langchain_tools">>)

\* chatbot.py:775-778
NetworkWarningMessage(net_chain_id) ==
    "WARNING: mismatch. Global chain_id=" \o current_chain_id
        \o ", provider chain_id=" \o net_chain_id \o "\nCurrent chain name: "
        \o get_chain_name(current_chain_id)

\* chatbot.py:779
CurrentNetworkMessage ==
    "Current network: " \o get_chain_name(current_chain_id)
        \o " (Chain ID=" \o current_chain_id \o ")"

\* chatbot.py:772-779.  Nothing of it is inside a try.
parse_get_current_network(failAt, msg) ==
    IF wallet_provider = None
    THEN [provider |-> None, path |-> "raised", exc |-> NoneTypeError,
          raised |-> TRUE, result |-> "", calls |-> << >>, tx |-> NoTx]
    ELSE IF failAt = "get_network"
    THEN [provider |-> wallet_provider, path |-> "raised", exc |-> msg,
          raised |-> TRUE, result |-> "", calls |-> <<"get_network">>, tx |-> NoTx]
    ELSE IF ~InRegistry(current_chain_id)
    THEN [provider |-> wallet_provider, path |-> "raised",
          exc |-> NotSupportedError(current_chain_id), raised |-> TRUE,
          result |-> "", calls |-> <<"get_network">>, tx |-> NoTx]
    ELSE IF ProviderChain(wallet_provider) # current_chain_id
    THEN [provider |-> wallet_provider, path |-> "warning", exc |-> "",
          raised |-> FALSE,
          result |-> NetworkWarningMessage(ProviderChain(wallet_provider)),
          calls |-> <<"get_network">>, tx |-> NoTx]
    ELSE [provider |-> wallet_provider, path |-> "current", exc |-> "",
          raised |-> FALSE, result |-> CurrentNetworkMessage,
          calls |-> <<"get_network">>, tx |-> NoTx]

\* The marks of chatbot.py:794 and 796 (U+2705 and U+274C), in ASCII.
OkMark == "[ok]"

FailMark == "[x]"

\* chatbot.py:786
VerifyHeader ==
    "Current chain in global state: " \o get_chain_name(current_chain_id)
        \o " (ID=" \o current_chain_id \o ")"

\* chatbot.py:794
VerifiedLine(chain_id, bal) ==
    OkMark \o " " \o SUPPORTED_CHAINS[chain_id].name \o " (Chain " \o chain_id
        \o "): got balance " \o bal \o " wei"

\* chatbot.py:796
FailedLine(chain_id, msg) ==
    FailMark \o " " \o SUPPORTED_CHAINS[chain_id].name \o " (Chain " \o chain_id
        \o "): " \o msg

\* Mutant of NextKey: the loop ends at the first chain that fails.
NextKey_StopsAtFailure(i, failed) ==
    IF failed THEN Len(SupportedKeys) + 1 ELSE i + 1

\* chatbot.py:788, 795-796: the except clause is inside the loop body, so
\* the loop goes on to the next registry key whether the chain failed or not.
NextKey(i, failed) == i + 1

\* chatbot.py:788-796: the body of the loop for the registry keys from the
\* i-th on; answers[i] is what the environment does for the i-th key.  v is
\* [cache, providers, data, written, lines, calls] so far.
RECURSIVE VerifyFrom(_, _, _)
VerifyFrom(i, v, answers) ==
    IF i > Len(SupportedKeys) THEN v
    ELSE
    LET chain_id == SupportedKeys[i]
        a  == answers[i]
        g  == get_cdp_wallet_provider_for_chain(
                  [cache |-> v.cache, providers |-> v.providers, data |-> v.data],
                  chain_id, a.reported, a.failAt, a.msg)
        c1 == v.calls \o g.calls
        c2 == c1 \o <<"get_network">>
        c3 == c2 \o <<"get_balance">>
        after(line, calls) ==
            [cache |-> g.cache, providers |-> g.providers, data |-> g.data,
             written |-> v.written \cup g.written,
             lines |-> Append(v.lines, line), calls |-> calls]
    IN  IF g.exc
        THEN VerifyFrom(NextKey(i, TRUE), after(FailedLine(chain_id, g.msg), c1), answers)
        ELSE IF a.failAt = "verify_get_network"
        THEN VerifyFrom(NextKey(i, TRUE), after(FailedLine(chain_id, a.msg), c2), answers)
        ELSE IF a.failAt = "get_balance"
        THEN VerifyFrom(NextKey(i, TRUE), after(FailedLine(chain_id, a.msg), c3), answers)
        ELSE VerifyFrom(NextKey(i, FALSE), after(VerifiedLine(chain_id, a.balance), c3),
                        answers)

\* chatbot.py:781-800
verify_all_chains(answers) ==
    IF ~InRegistry(current_chain_id)
    THEN \* chatbot.py:786: get_chain_name() raises ValueError
         SessionToolReturn(Untouched, "raised", TRUE,
                           NotSupportedError(current_chain_id), "", << >>)
    ELSE
    LET v == VerifyFrom(1, [cache |-> wallet_providers_cache, providers |-> providers,
                            data |-> wallet_data, written |-> {},
                            lines |-> <<VerifyHeader>>, calls |-> << >>],
                        answers)
    IN  SessionToolReturn(
            [chain |-> current_chain_id, provider |-> wallet_provider,
             kit |-> agentkit, cache |-> v.cache, providers |-> v.providers,
             data |-> v.data, written |-> v.written],
            "verified", FALSE, "", Join(v.lines, "\n"), v.calls)

\* chatbot.py:802-803
parse_verify_chains(input_str, answers) == verify_all_chains(answers)

----------------------------------------------------------------------------
(* The state machine *)

\* The globals before a handler runs, kept with the record of that run.
Globals ==
    [chain |-> current_chain_id, provider |-> wallet_provider,
     cache |-> wallet_providers_cache, data |-> wallet_data, kit |-> agentkit]

\* No handler has returned a result that its caller has yet to take.
NoCall ==
    [op |-> "none", arg |-> "", provider |-> None,
     pre |-> [chain |-> "", provider |-> None, cache |-> << >>, data |-> "",
              kit |-> None],
     path |-> "", exc |-> "", raised |-> FALSE, result |-> "", calls |-> << >>,
     tx |-> NoTx]

\* No bridging is under way.
NoBridge ==
    [phase |-> "idle", src |-> "", dst |-> "", burn_ok |-> FALSE,
     burn_hash |-> "", switch_ok |-> FALSE]

\* The tool calls that can run at the same time.
Threads == {"t1", "t2"}

\* A thread that runs no tool call.
Idle ==
    [op |-> "none", pc |-> "idle", arg |-> "", provider |-> None, data |-> "",
     checked |-> "", address_of |-> "", tx |-> NoTx, result |-> ""]

NoThreads == [t \in Threads |-> Idle]

\* main() has not reached choose_mode (chatbot.py:1018).
NoConsole ==
    [pc |-> "start", mode |-> "", choices |-> << >>, invalid |-> 0,
     lines |-> << >>, sent |-> << >>, results |-> << >>, idx |-> 0,
     interrupted |-> FALSE, exit |-> "none"]

\* The chain backend before any transaction: no address holds tokens on any
\* chain.  ledger is the token balance by chain and address, previous the
\* ledger before the latest transaction, count the transactions so far.
NoLedger == [k \in {} |-> WeiZero]

NoBackend == [ledger |-> NoLedger, previous |-> NoLedger, count |-> 0]

Init ==
    /\ current_chain_id = DEFAULT_CHAIN_ID
    /\ wallet_provider = None
    /\ wallet_providers_cache = [c \in {} |-> None]
    /\ agentkit = None
    /\ wallet_data \in {NoFile, StoredWallet}
    /\ providers = << >>
    /\ phase = "start"
    /\ persisted = {}
    /\ bridge = NoBridge
    /\ threads = NoThreads
    /\ agent_tools = None
    /\ backend = NoBackend
    /\ console = NoConsole
    /\ last = NoCall

\* The behaviours of the environment during one run of a handler, as records
\* of what the external calls return or raise.  A field that the run never
\* reads (the message when nothing raises, the report of a provider that is
\* never asked) is fixed, so that each behaviour is listed once.
Env(reported, failAt, msg) == [reported |-> reported, failAt |-> failAt, msg |-> msg]

InitEnvs ==
    {Env(DEFAULT_CHAIN_ID, "construct", m) : m \in Msgs}
    \cup {Env(c, f, m) : c \in ReportedIds, f \in InitFails \ {"construct"}, m \in Msgs}
    \cup {Env(c, "none", "") : c \in ReportedIds}

SwitchEnvs(new_chain_id) ==
    IF new_chain_id \notin SupportedSet \/ new_chain_id = current_chain_id
    THEN {Env(new_chain_id, "none", "")}
    ELSE {Env(new_chain_id, f, m) : f \in {"construct", "get_network"}, m \in Msgs}
         \cup {Env(c, f, m) : c \in ReportedIds,
                              f \in {"export", "identity_get_network"}, m \in Msgs}
         \cup {Env(new_chain_id, f, m) :
                   f \in {"get_balance", "AgentKit", "final_get_network"}, m \in Msgs}
         \cup {Env(c, "none", "") : c \in ReportedIds}

\* A write: the function name reaches the provider with the submission, so it
\* is varied only in the runs whose submission returns.
InvokeEnvs ==
    {[function_name |-> "crosschainMint", failAt |-> f, msg |-> m, tx_hash |-> "0xaa"] :
        f \in {"get_network", "transact_contract"}, m \in Msgs}
    \cup {[function_name |-> fn, failAt |-> "wait_for_transaction_receipt",
            msg |-> m, tx_hash |-> h] :
        fn \in WriteFunctions, m \in Msgs, h \in TxHashes}
    \cup {[function_name |-> fn, failAt |-> "none", msg |-> "", tx_hash |-> h] :
        fn \in WriteFunctions, h \in TxHashes}

ReadEnvs ==
    {[failAt |-> f, msg |-> m, value |-> "0"] : f \in ReadFails, m \in Msgs}
    \cup {[failAt |-> "none", msg |-> "", value |-> v] : v \in ReadValues}

InitializeAgent ==
    /\ phase = "start"
    /\ last = NoCall
    /\ \E env \in InitEnvs :
         LET r == initialize_agent(env.reported, env.failAt, env.msg) IN
         /\ wallet_provider' = r.provider
         /\ agentkit' = r.kit
         /\ providers' = r.providers
         /\ wallet_data' = r.data
         /\ phase' = IF r.path = "returned" THEN "running" ELSE "crashed"
         /\ last' = [op |-> "initialize_agent", arg |-> "", provider |-> None,
                     pre |-> Globals, path |-> r.path, exc |-> r.exc,
                     raised |-> (r.path = "raised"), result |-> r.result,
                     calls |-> r.calls, tx |-> NoTx]
         /\ persisted' = persisted \cup r.written
         /\ agent_tools' = r.tools
         /\ UNCHANGED <<current_chain_id, wallet_providers_cache, bridge, threads,
                        backend, console>>

\* A call of switch_network in a run that constructs cap providers at most,
\* with the environment doing one of Envs[new_chain_id].
SwitchNetworkWithin(cap, Envs) ==
    /\ phase = "running"
    /\ last = NoCall
    /\ \E new_chain_id \in InputIds : \E env \in Envs[new_chain_id] :
         LET r == switch_network(new_chain_id, env.reported, env.failAt, env.msg) IN
         /\ Len(r.providers) <= cap
         /\ current_chain_id' = r.chain
         /\ wallet_provider' = r.provider
         /\ agentkit' = r.kit
         /\ wallet_providers_cache' = r.cache
         /\ providers' = r.providers
         /\ wallet_data' = r.data
         /\ last' = [op |-> "switch_network", arg |-> new_chain_id, provider |-> None,
                     pre |-> Globals, path |-> r.path, exc |-> r.exc,
                     raised |-> FALSE, result |-> r.result,
                     calls |-> r.calls, tx |-> NoTx]
         /\ persisted' = persisted \cup r.written
         /\ UNCHANGED <<phase, bridge, threads,
                   agent_tools, backend, console>>

SwitchNetwork ==
    SwitchNetworkWithin(MaxProviders, [c \in InputIds |-> SwitchEnvs(c)])

\* The environments of one call of get_cdp_wallet_provider_for_chain.
CreateEnvs(chain_id) ==
    IF CacheHit(wallet_providers_cache, chain_id)
    THEN {Env(chain_id, "none", "")}
    ELSE {Env(chain_id, f, m) : f \in {"construct", "get_network"}, m \in Msgs}
         \cup {Env(c, "export", m) : c \in ReportedIds, m \in Msgs}
         \cup {Env(c, "none", "") : c \in ReportedIds}

\* A call of get_cdp_wallet_provider_for_chain by a caller other than
\* switch_network, which does not delete the cache entry first
\* (chatbot.py:789).  The result is the provider returned.
GetCdpWalletProviderForChainWithin(cap, Envs) ==
    /\ phase = "running"
    /\ last = NoCall
    /\ \E chain_id \in SupportedSet : \E env \in Envs[chain_id] :
         LET r == get_cdp_wallet_provider_for_chain(
                      [cache |-> wallet_providers_cache, providers |-> providers,
                       data |-> wallet_data],
                      chain_id, env.reported, env.failAt, env.msg) IN
         /\ Len(r.providers) <= cap
         /\ wallet_providers_cache' = r.cache
         /\ providers' = r.providers
         /\ wallet_data' = r.data
         /\ persisted' = persisted \cup r.written
         /\ last' = [op |-> "get_cdp_wallet_provider_for_chain", arg |-> chain_id,
                     provider |-> None, pre |-> Globals,
                     path |-> IF r.exc THEN "raised"
                              ELSE IF CacheHit(wallet_providers_cache, chain_id)
                                   THEN "hit" ELSE "miss",
                     exc |-> r.msg, raised |-> r.exc, result |-> r.ret,
                     calls |-> r.calls, tx |-> NoTx]
         /\ UNCHANGED <<current_chain_id, wallet_provider, agentkit, phase, bridge,
                        threads,
                   agent_tools, backend, console>>

GetCdpWalletProviderForChain ==
    GetCdpWalletProviderForChainWithin(MaxProviders,
                                       [c \in SupportedSet |-> CreateEnvs(c)])

InvokeContractFunction ==
    /\ phase = "running"
    /\ last = NoCall
    /\ \E provider \in {None} \cup ProviderIds, env \in InvokeEnvs :
         LET r == invoke_contract_function(provider, env.function_name, env.failAt,
                                           env.msg, env.tx_hash) IN
         /\ last' = [op |-> "invoke_contract_function", arg |-> "",
                     provider |-> provider, pre |-> Globals, path |-> r.path,
                     exc |-> r.exc, raised |-> FALSE, result |-> r.result,
                     calls |-> r.calls, tx |-> r.tx]
         /\ UNCHANGED <<current_chain_id, wallet_provider, wallet_providers_cache,
                        agentkit, wallet_data, providers, phase, persisted, bridge,
                        threads,
                   agent_tools, backend, console>>

ReadContract ==
    /\ phase = "running"
    /\ last = NoCall
    /\ \E provider \in {None} \cup ProviderIds, function_name \in ReadFunctions,
          env \in ReadEnvs :
         LET r == read_contract(provider, function_name, env.failAt, env.msg,
                                env.value) IN
         /\ last' = [op |-> "read_contract", arg |-> "",
                     provider |-> provider, pre |-> Globals, path |-> r.path,
                     exc |-> r.exc, raised |-> FALSE, result |-> r.result,
                     calls |-> r.calls, tx |-> r.tx]
         /\ UNCHANGED <<current_chain_id, wallet_provider, wallet_providers_cache,
                        agentkit, wallet_data, providers, phase, persisted, bridge,
                        threads,
                   agent_tools, backend, console>>

\* The caller takes the result of the handler that just returned; handlers
\* run one at a time, each called after the previous result was taken
\* (chatbot.py:983-988: the agent's tool results are consumed in order).
TakeResult ==
    /\ last # NoCall
    /\ last' = NoCall
    /\ UNCHANGED <<current_chain_id, wallet_provider, wallet_providers_cache,
                   agentkit, wallet_data, providers, phase, persisted, bridge,
                   threads,
                   agent_tools, backend, console>>

Next ==
    \/ InitializeAgent
    \/ SwitchNetwork
    \/ GetCdpWalletProviderForChain
    \/ InvokeContractFunction
    \/ ReadContract
    \/ TakeResult

Spec == Init /\ [][Next]_vars

----------------------------------------------------------------------------
(* The tool functions as the agent calls them (chatbot.py:866-913).        *)

\* Inputs of the mint and burn tools: one well-formed, then a missing
\* amount, an address without prefix, a non-integer amount, a third word.
TransferInputs ==
    {" 0x1234 100 ", "0x1234", "1234 100", "0x1234 1.5", "0x1234 100 7"}

BalanceInputs == {" 0x1234 ", "1234", ""}

DepositInputs == {" 0.01 ", "abc", ""}

WithdrawInputs == {" 100 ", "1.5", ""}

SwitchInputs == {""} \cup InputIds

\* wallet_provider.get_balance() as the tools print it.
NativeBalances == {"5000"}

\* What the provider does during one run of a write tool.
WriteToolEnvs ==
    {[failAt |-> f, msg |-> m, tx_hash |-> "0xaa"] : f \in InvokeFails, m \in Msgs}
    \cup {[failAt |-> "none", msg |-> "", tx_hash |-> h] : h \in TxHashes}

BalanceToolEnvs ==
    {[failAt |-> f, msg |-> m, value |-> "0"] :
        f \in ReadFails \cup {"get_balance"}, m \in Msgs}
    \cup {[failAt |-> "none", msg |-> "", value |-> v] : v \in ReadValues}

SwitchToolEnvs(input_str) ==
    IF input_str = ""
    THEN {Env(current_chain_id, "get_network", m) : m \in Msgs}
         \cup {Env(current_chain_id, "none", "")}
    ELSE SwitchEnvs(input_str)
         \cup {Env(input_str, "get_langchain_tools", m) : m \in Msgs}

\* What the environment does for one registry key during verify_all_chains;
\* a provider taken from the cache is not constructed, so no answer about
\* its construction is listed.
VerifyAnswers(chain_id) ==
    {[reported |-> chain_id, failAt |-> f, msg |-> "timed out", balance |-> "0"] :
        f \in IF CacheHit(wallet_providers_cache, chain_id)
              THEN {"verify_get_network", "get_balance"}
              ELSE {"construct", "export", "verify_get_network", "get_balance"}}
    \cup {[reported |-> c, failAt |-> "none", msg |-> "", balance |-> "5000"] :
             c \in IF CacheHit(wallet_providers_cache, chain_id)
                   THEN {chain_id} ELSE {chain_id, UnsupportedId}}

RECURSIVE AllVerifyAnswers(_)
\* The answers for the registry keys from the i-th on, one per key.
AllVerifyAnswers(i) ==
    IF i > Len(SupportedKeys) THEN {<< >>}
    ELSE {<<a>> \o rest : a \in VerifyAnswers(SupportedKeys[i]),
                          rest \in AllVerifyAnswers(i + 1)}

\* An input of the mint or burn tool that is not an address with the 0x
\* prefix followed by an integer.
InvalidTransferInput(input_str) ==
    LET parts == split(strip(input_str)) IN
    \/ Len(parts) # 2
    \/ ~StartsWith(parts[1], "0x")
    \/ ~IsInt(parts[2])

\* The provider is not reached on a malformed input, so the environment is
\* varied only for the well-formed ones.
EnvsFor(malformed, envs) ==
    IF malformed THEN {CHOOSE env \in envs : env.failAt = "none"} ELSE envs

\* A tool that leaves the session alone returned r to the agent.
DomainToolCall(op, input_str, r) ==
    /\ last' = [op |-> op, arg |-> input_str, provider |-> r.provider,
                pre |-> Globals, path |-> r.path, exc |-> r.exc,
                raised |-> r.raised, result |-> r.result, calls |-> r.calls,
                tx |-> r.tx]
    /\ UNCHANGED <<current_chain_id, wallet_provider, wallet_providers_cache,
                   agentkit, wallet_data, providers, phase, persisted>>

\* A tool that assigns globals returned r to the agent.
SessionToolCallWithin(cap, op, input_str, r) ==
    /\ Len(r.providers) <= cap
    /\ current_chain_id' = r.chain
    /\ wallet_provider' = r.provider
    /\ agentkit' = r.kit
    /\ wallet_providers_cache' = r.cache
    /\ providers' = r.providers
    /\ wallet_data' = r.data
    /\ persisted' = persisted \cup r.written
    /\ last' = [op |-> op, arg |-> input_str, provider |-> None, pre |-> Globals,
                path |-> r.path, exc |-> r.exc, raised |-> r.raised,
                result |-> r.result, calls |-> r.calls, tx |-> NoTx]
    /\ UNCHANGED phase

SessionToolCall(op, input_str, r) ==
    SessionToolCallWithin(MaxProviders, op, input_str, r)

Ready == phase = "running" /\ last = NoCall

ParseMintArgs ==
    /\ Ready
    /\ \E input_str \in TransferInputs :
       \E env \in EnvsFor(InvalidTransferInput(input_str), WriteToolEnvs) :
         DomainToolCall("parse_mint_args", input_str,
                        parse_mint_args(input_str, env.failAt, env.msg, env.tx_hash))
    /\ UNCHANGED <<bridge, threads,
                   agent_tools, backend, console>>

ParseBurnArgs ==
    /\ Ready
    /\ \E input_str \in TransferInputs :
       \E env \in EnvsFor(InvalidTransferInput(input_str), WriteToolEnvs) :
         DomainToolCall("parse_burn_args", input_str,
                        parse_burn_args(input_str, env.failAt, env.msg, env.tx_hash))
    /\ UNCHANGED <<bridge, threads,
                   agent_tools, backend, console>>

ParseBalanceOfArgs ==
    /\ Ready
    /\ \E input_str \in BalanceInputs, local_balance \in NativeBalances :
       \E env \in EnvsFor(~StartsWith(strip(input_str), "0x"), BalanceToolEnvs) :
         DomainToolCall("parse_balance_of_args", input_str,
                        parse_balance_of_args(input_str, env.failAt, env.msg,
                                              local_balance, env.value))
    /\ UNCHANGED <<bridge, threads,
                   agent_tools, backend, console>>

ParseDepositEthArgs ==
    /\ Ready
    /\ \E input_str \in DepositInputs :
       \E env \in EnvsFor(~IsFloat(input_str), WriteToolEnvs) :
         DomainToolCall("parse_deposit_eth_args", input_str,
                        parse_deposit_eth_args(input_str, env.failAt, env.msg,
                                               env.tx_hash))
    /\ UNCHANGED <<bridge, threads,
                   agent_tools, backend, console>>

ParseWithdrawArgs ==
    /\ Ready
    /\ \E input_str \in WithdrawInputs :
       \E env \in EnvsFor(~IsInt(input_str), WriteToolEnvs) :
         DomainToolCall("parse_withdraw_args", input_str,
                        parse_withdraw_args(input_str, env.failAt, env.msg,
                                            env.tx_hash))
    /\ UNCHANGED <<bridge, threads,
                   agent_tools, backend, console>>

ParseSwitchNetworkArgs ==
    /\ Ready
    /\ \E input_str \in SwitchInputs : \E env \in SwitchToolEnvs(input_str) :
         SessionToolCall("parse_switch_network_args", input_str,
                         parse_switch_network_args(input_str, env.reported,
                                                   env.failAt, env.msg))
    /\ UNCHANGED <<bridge, threads,
                   agent_tools, backend, console>>

ParseGetCurrentNetwork ==
    /\ Ready
    /\ \E failAt \in {"get_network", "none"}, msg \in Msgs :
         DomainToolCall("parse_get_current_network", "",
                        parse_get_current_network(failAt, msg))
    /\ UNCHANGED <<bridge, threads,
                   agent_tools, backend, console>>

ParseVerifyChains ==
    /\ Ready
    /\ \E answers \in AllVerifyAnswers(1) :
         SessionToolCall("parse_verify_chains", "", parse_verify_chains("", answers))
    /\ UNCHANGED <<bridge, threads,
                   agent_tools, backend, console>>

\* The session as the agent drives it: initialize_agent, then tool calls one
\* after the other.
ToolNext ==
    \/ InitializeAgent
    \/ ParseMintArgs
    \/ ParseBurnArgs
    \/ ParseBalanceOfArgs
    \/ ParseDepositEthArgs
    \/ ParseWithdrawArgs
    \/ ParseSwitchNetworkArgs
    \/ ParseGetCurrentNetwork
    \/ ParseVerifyChains
    \/ TakeResult

ToolSpec == Init /\ [][ToolNext]_vars

----------------------------------------------------------------------------
(* Bridging.  The program has no bridge function: the agent is told         *)
(* (chatbot.py:923) "If bridging, do crosschainBurn on source chain, then   *)
(* switch to destination chain, do crosschainMint", and carries it out as   *)
(* three tool calls.  Nothing in the program makes a step depend on the     *)
(* result of the one before, so the agent may go on after a failed step or  *)
(* stop after any step.  The variable bridge records, beside the program's  *)
(* state, which bridging the tool calls belong to.                          *)

\* The words of the burn and of the mint of one bridging.
BridgeTransfer == "0x1234 100"

\* The message of a tool is an error message.
IsErrorMessage(result) == StartsWith(result, "Error")

\* First step: crosschainBurn on the source chain, the chain the session is on.
BridgeBurn ==
    /\ Ready
    /\ bridge.phase = "idle"
    /\ \E dst \in SupportedSet \ {current_chain_id}, env \in WriteToolEnvs :
         LET r == parse_burn_args(BridgeTransfer, env.failAt, env.msg, env.tx_hash) IN
         /\ DomainToolCall("parse_burn_args", BridgeTransfer, r)
         /\ bridge' = [phase |-> "burn_done", src |-> current_chain_id, dst |-> dst,
                       burn_ok |-> ~IsErrorMessage(r.result),
                       burn_hash |-> IF r.tx = NoTx THEN "" ELSE r.tx[1].tx_hash,
                       switch_ok |-> FALSE]
    /\ UNCHANGED <<threads, agent_tools, backend, console>>

\* Second step: switch to the destination chain.
BridgeSwitch ==
    /\ Ready
    /\ bridge.phase = "burn_done"
    /\ \E env \in SwitchToolEnvs(bridge.dst) :
         LET r == parse_switch_network_args(bridge.dst, env.reported, env.failAt,
                                            env.msg) IN
         /\ SessionToolCall("parse_switch_network_args", bridge.dst, r)
         /\ bridge' = [bridge EXCEPT !.phase = "switch_done",
                                     !.switch_ok = ~r.raised /\ ~IsErrorMessage(r.result)]
    /\ UNCHANGED <<threads, agent_tools, backend, console>>

\* Third step: crosschainMint.
BridgeMint ==
    /\ Ready
    /\ bridge.phase = "switch_done"
    /\ \E env \in WriteToolEnvs :
         LET r == parse_mint_args(BridgeTransfer, env.failAt, env.msg, env.tx_hash) IN
         /\ DomainToolCall("parse_mint_args", BridgeTransfer, r)
         /\ bridge' = [bridge EXCEPT !.phase = "mint_done"]
    /\ UNCHANGED <<threads, agent_tools, backend, console>>

\* The agent ends the bridging, after the last step or after an earlier one.
BridgeEnd ==
    /\ Ready
    /\ bridge.phase # "idle"
    /\ bridge' = NoBridge
    /\ UNCHANGED <<current_chain_id, wallet_provider, wallet_providers_cache,
                   agentkit, wallet_data, providers, phase, persisted, threads, last,
                   agent_tools, backend, console>>

BridgeNext ==
    \/ InitializeAgent
    \/ BridgeBurn
    \/ BridgeSwitch
    \/ BridgeMint
    \/ BridgeEnd
    \/ TakeResult

BridgeSpec == Init /\ [][BridgeNext]_vars

----------------------------------------------------------------------------
(* The tools against a chain backend.  The state of the chains is outside  *)
(* the program; the backend here is the mock the round-trip property is    *)
(* stated against: on every chain the contract keeps a token balance per   *)
(* address, deposit() credits the sender with the value sent, withdraw(n)  *)
(* debits the sender by n and is refused for n below 0 or above the        *)
(* balance, balanceOf(a) returns the balance of a.  A provider talks to    *)
(* the chain it reports, in the name of the address of its wallet.         *)

\* The state after initialize_agent returned with a provider that reports
\* the default chain, from a stored wallet or from a new one; no address
\* holds tokens yet.
BackendInit ==
    /\ current_chain_id = DEFAULT_CHAIN_ID
    /\ wallet_data \in {StoredWallet, NewWallet(1)}
    /\ providers = <<[chain |-> DEFAULT_CHAIN_ID, wallet |-> wallet_data]>>
    /\ wallet_provider = 1
    /\ agentkit = 1
    /\ wallet_providers_cache = [c \in {} |-> None]
    /\ phase = "running"
    /\ persisted = {1}
    /\ bridge = NoBridge
    /\ threads = NoThreads
    /\ agent_tools = 1
    /\ backend = NoBackend
    /\ console = NoConsole
    /\ last = NoCall

\* The address of a wallet.
AddressOf(wallet) == "0x" \o wallet

BalanceAt(ledger, chain, address) ==
    IF <<chain, address>> \in DOMAIN ledger THEN ledger[<<chain, address>>]
    ELSE WeiZero

SetBalance(ledger, chain, address, amount) ==
    [k \in DOMAIN ledger \cup {<<chain, address>>} |->
        IF k = <<chain, address>> THEN amount ELSE ledger[k]]

\* The address a submission is made in the name of.
Sender(tx) == AddressOf(providers[tx.via].wallet)

\* The backend takes the submission: it is a deposit, or a withdrawal of an
\* amount from 0 up to the balance of the sender.
Accepts(tx) ==
    \/ tx.function_name = "deposit"
    \/ /\ tx.function_name = "withdraw"
       /\ tx.args[1] >= 0
       /\ ~WeiLess(BalanceAt(backend.ledger, tx.on, Sender(tx)), WeiOf(tx.args[1]))

\* The backend after the transaction was mined.
Mined(tx) ==
    LET had == BalanceAt(backend.ledger, tx.on, Sender(tx))
        has == IF tx.function_name = "deposit" THEN WeiAdd(had, tx.value)
               ELSE WeiSub(had, WeiOf(tx.args[1]))
    IN  [ledger |-> SetBalance(backend.ledger, tx.on, Sender(tx), has),
         previous |-> backend.ledger, count |-> backend.count + 1]

\* What balanceOf(address) returns to a read made through the provider.
BackendRead(provider, address) ==
    WeiStr(BalanceAt(backend.ledger, ProviderChain(provider), address))

BackendDepositInputs ==
    {"0.01", "0.0000000000000000001", "0.0000000000000000019", "0", "-0.5"}

BackendWithdrawInputs == {"100", "0"}

\* A write tool returned r; the backend refuses what it does not accept, a
\* transaction whose receipt came is mined, one whose receipt wait failed is
\* mined or not.
BackendWrite(op, input_str, r, mined) ==
    /\ r.tx # NoTx => Accepts(r.tx[1])
    /\ r.tx = NoTx => ~mined
    /\ r.path = "success" => mined
    /\ DomainToolCall(op, input_str, r)
    /\ backend' = IF mined THEN Mined(r.tx[1]) ELSE backend
    /\ UNCHANGED <<bridge, threads, agent_tools, console>>

DepositOnBackend ==
    /\ Ready
    /\ backend.count < MaxTransactions
    /\ \E input_str \in BackendDepositInputs, env \in WriteToolEnvs, mined \in BOOLEAN :
         BackendWrite("parse_deposit_eth_args", input_str,
                      parse_deposit_eth_args(input_str, env.failAt, env.msg,
                                             env.tx_hash),
                      mined)

WithdrawOnBackend ==
    /\ Ready
    /\ backend.count < MaxTransactions
    /\ \E input_str \in BackendWithdrawInputs, env \in WriteToolEnvs, mined \in BOOLEAN :
         BackendWrite("parse_withdraw_args", input_str,
                      parse_withdraw_args(input_str, env.failAt, env.msg, env.tx_hash),
                      mined)

\* The own address of the session: the address of the active provider's wallet.
SelfAddress == AddressOf(providers[wallet_provider].wallet)

\* balance_of for the own address; the read returns what the backend holds.
BalanceOnBackend ==
    /\ Ready
    /\ \E local_balance \in NativeBalances, env \in BalanceToolEnvs :
         /\ env.value = "0"
         /\ DomainToolCall("parse_balance_of_args", SelfAddress,
                           parse_balance_of_args(SelfAddress, env.failAt, env.msg,
                               local_balance,
                               BackendRead(wallet_provider, SelfAddress)))
    /\ UNCHANGED <<bridge, threads, agent_tools, backend, console>>

\* The switch tool moves the session to another chain: the external calls
\* return and the provider reports the chain it was asked for.
SwitchOnBackend ==
    /\ Ready
    /\ \E input_str \in SupportedSet :
         SessionToolCall("parse_switch_network_args", input_str,
                         parse_switch_network_args(input_str, input_str, "none", ""))
    /\ UNCHANGED <<bridge, threads, agent_tools, backend, console>>

BackendNext ==
    \/ SwitchOnBackend
    \/ DepositOnBackend
    \/ WithdrawOnBackend
    \/ BalanceOnBackend
    \/ TakeResult

BackendSpec == BackendInit /\ [][BackendNext]_vars

----------------------------------------------------------------------------
(* The session that only switches and fills the cache: switch_network,     *)
(* get_cdp_wallet_provider_for_chain and verify_all_chains, called one     *)
(* after the other from the state initialize_agent leaves, with more       *)
(* providers constructed than in the other sessions.                       *)

\* What the environment does in this session: a provider reports the chain
\* it was asked for or a chain outside the registry, and the construction,
\* the export of the wallet, the probe of the switch or the rebuild of
\* agentkit may raise.
CacheSwitchEnvs(new_chain_id) ==
    IF new_chain_id \notin SupportedSet \/ new_chain_id = current_chain_id
    THEN {Env(new_chain_id, "none", "")}
    ELSE {Env(new_chain_id, f, "timed out") :
              f \in {"construct", "export", "get_balance", "AgentKit"}}
         \cup {Env(c, "none", "") : c \in {new_chain_id, UnsupportedId}}

CacheCreateEnvs(chain_id) ==
    IF CacheHit(wallet_providers_cache, chain_id)
    THEN {Env(chain_id, "none", "")}
    ELSE {Env(chain_id, f, "timed out") : f \in {"construct", "export"}}
         \cup {Env(c, "none", "") : c \in {chain_id, UnsupportedId}}

CacheSwitchNetwork ==
    SwitchNetworkWithin(MaxCacheProviders, [c \in InputIds |-> CacheSwitchEnvs(c)])

CacheGetProvider ==
    GetCdpWalletProviderForChainWithin(MaxCacheProviders,
                                       [c \in SupportedSet |-> CacheCreateEnvs(c)])

\* verify_all_chains where every external call returns and every provider
\* constructed reports the chain it was asked for.
VerifiedAnswers ==
    [i \in 1..Len(SupportedKeys) |->
        [reported |-> SupportedKeys[i], failAt |-> "none", msg |-> "",
         balance |-> "5000"]]

CacheVerifyChains ==
    /\ Ready
    /\ SessionToolCallWithin(MaxCacheProviders, "parse_verify_chains", "",
                             parse_verify_chains("", VerifiedAnswers))
    /\ UNCHANGED <<bridge, threads, agent_tools, backend, console>>

CacheNext ==
    \/ CacheSwitchNetwork
    \/ CacheGetProvider
    \/ CacheVerifyChains
    \/ TakeResult

CacheSpec == BackendInit /\ [][CacheNext]_vars

----------------------------------------------------------------------------
(* Tool calls running at the same time.  The program takes no lock          *)
(* (chatbot.py has none), so the calls of two threads interleave between    *)
(* any two accesses to the globals and to wallet_data.txt.  A step below is *)
(* the code from one such access to the next; pc names the line a thread is *)
(* at.  The external calls return, and a constructed provider reports the   *)
(* chain it was asked for: the steps differ only in how they interleave.    *)

\* The state after initialize_agent returned with a provider that reports
\* the default chain, from a stored wallet or from a new one.
RaceInit ==
    /\ current_chain_id = DEFAULT_CHAIN_ID
    /\ wallet_data \in {StoredWallet, NewWallet(1)}
    /\ providers = <<[chain |-> DEFAULT_CHAIN_ID, wallet |-> wallet_data]>>
    /\ wallet_provider = 1
    /\ agentkit = 1
    /\ wallet_providers_cache = [c \in {} |-> None]
    /\ phase = "running"
    /\ persisted = {1}
    /\ bridge = NoBridge
    /\ threads = NoThreads
    /\ agent_tools = 1
    /\ backend = NoBackend
    /\ console = NoConsole
    /\ last = NoCall

At(t, pc) == threads[t].pc = pc

Goto(t, pc) == threads' = [threads EXCEPT ![t].pc = pc]

\* The line a thread goes to when get_cdp_wallet_provider_for_chain returns.
AfterCreate(t) == IF threads[t].op = "switch_network" THEN "432" ELSE "done"

\* switch_network(new_chain_id) is called (chatbot.py:406).
StartSwitch(t) ==
    /\ At(t, "idle")
    /\ \E new_chain_id \in SupportedSet :
         threads' = [threads EXCEPT ![t] =
                        [Idle EXCEPT !.op = "switch_network", !.pc = "415",
                                     !.arg = new_chain_id]]
    /\ UNCHANGED <<current_chain_id, wallet_provider, wallet_providers_cache,
                   agentkit, wallet_data, providers, phase, persisted, bridge, last,
                   agent_tools, backend, console>>

\* chatbot.py:415-419
SwitchCheck(t) ==
    /\ At(t, "415")
    /\ IF SameChain(threads[t].arg)
       THEN threads' = [threads EXCEPT ![t].pc = "done",
                                       ![t].result = AlreadyOnMessage]
       ELSE Goto(t, "423")
    /\ UNCHANGED <<current_chain_id, wallet_provider, wallet_providers_cache,
                   agentkit, wallet_data, providers, phase, persisted, bridge, last,
                   agent_tools, backend, console>>

\* chatbot.py:423-424
SwitchDelete(t) ==
    /\ At(t, "423")
    /\ wallet_providers_cache' = CacheDel(wallet_providers_cache, threads[t].arg)
    /\ Goto(t, "487")
    /\ UNCHANGED <<current_chain_id, wallet_provider, agentkit, wallet_data,
                   providers, phase, persisted, bridge, last,
                   agent_tools, backend, console>>

\* get_cdp_wallet_provider_for_chain(chain_id) is called outside a switch
\* (chatbot.py:789).
StartCreate(t) ==
    /\ At(t, "idle")
    /\ \E chain_id \in SupportedSet :
         threads' = [threads EXCEPT ![t] =
                        [Idle EXCEPT !.op = "get_cdp_wallet_provider_for_chain",
                                     !.pc = "487", !.arg = chain_id]]
    /\ UNCHANGED <<current_chain_id, wallet_provider, wallet_providers_cache,
                   agentkit, wallet_data, providers, phase, persisted, bridge, last,
                   agent_tools, backend, console>>

\* chatbot.py:487-489
CreateLookup(t) ==
    /\ At(t, "487")
    /\ IF CacheHit(wallet_providers_cache, threads[t].arg)
       THEN threads' = [threads EXCEPT
                           ![t].pc = AfterCreate(t),
                           ![t].provider = wallet_providers_cache[threads[t].arg]]
       ELSE Goto(t, "492")
    /\ UNCHANGED <<current_chain_id, wallet_provider, wallet_providers_cache,
                   agentkit, wallet_data, providers, phase, persisted, bridge, last,
                   agent_tools, backend, console>>

\* chatbot.py:492-495: the thread reads what the file holds at this moment
CreateRead(t) ==
    /\ At(t, "492")
    /\ threads' = [threads EXCEPT ![t].pc = "507", ![t].data = wallet_data]
    /\ UNCHANGED <<current_chain_id, wallet_provider, wallet_providers_cache,
                   agentkit, wallet_data, providers, phase, persisted, bridge, last,
                   agent_tools, backend, console>>

\* chatbot.py:497-518: the provider is constructed from the data read
CreateConstruct(t) ==
    /\ At(t, "507")
    /\ LET p == Len(providers) + 1 IN
       /\ providers' = Append(providers,
                              [chain |-> threads[t].arg,
                               wallet |-> ConfigWallet(threads[t].data, p)])
       /\ threads' = [threads EXCEPT ![t].pc = "521", ![t].provider = p]
    /\ UNCHANGED <<current_chain_id, wallet_provider, wallet_providers_cache,
                   agentkit, wallet_data, phase, persisted, bridge, last,
                   agent_tools, backend, console>>

\* chatbot.py:507: the constructor raises on the empty string it was given
\* for wallet data; the exception leaves the function (and, in a switch, is
\* turned into the error of line 470).
CreateRaises(t) ==
    /\ At(t, "507")
    /\ threads[t].data = EmptyFile
    /\ threads' = [threads EXCEPT
                      ![t].pc = "done",
                      ![t].result = IF threads[t].op = "switch_network"
                                    THEN SwitchingMessage(threads[t].arg, "invalid wallet data")
                                    ELSE "raised"]
    /\ UNCHANGED <<current_chain_id, wallet_provider, wallet_providers_cache,
                   agentkit, wallet_data, providers, phase, persisted, bridge, last,
                   agent_tools, backend, console>>

\* chatbot.py:521
CreatePut(t) ==
    /\ At(t, "521")
    /\ wallet_providers_cache' =
           CachePut(wallet_providers_cache, threads[t].arg, threads[t].provider)
    /\ Goto(t, "524")
    /\ UNCHANGED <<current_chain_id, wallet_provider, agentkit, wallet_data,
                   providers, phase, persisted, bridge, last,
                   agent_tools, backend, console>>

\* chatbot.py:524-525: export_wallet(), then open(wallet_data_file, "w")
\* empties the file
CreateOpen(t) ==
    /\ At(t, "524")
    /\ wallet_data' = EmptyFile
    /\ Goto(t, "526")
    /\ UNCHANGED <<current_chain_id, wallet_provider, wallet_providers_cache,
                   agentkit, providers, phase, persisted, bridge, last,
                   agent_tools, backend, console>>

\* chatbot.py:526-528: the exported wallet is written and the file closed
CreateWrite(t) ==
    /\ At(t, "526")
    /\ wallet_data' = providers[threads[t].provider].wallet
    /\ persisted' = persisted \cup {threads[t].provider}
    /\ Goto(t, AfterCreate(t))
    /\ UNCHANGED <<current_chain_id, wallet_provider, wallet_providers_cache,
                   agentkit, providers, phase, bridge, last,
                   agent_tools, backend, console>>

\* chatbot.py:432-445: the identity check and the probe pass, then
\* current_chain_id = new_chain_id
SwitchCommitChain(t) ==
    /\ At(t, "432")
    /\ current_chain_id' = threads[t].arg
    /\ Goto(t, "446")
    /\ UNCHANGED <<wallet_provider, wallet_providers_cache, agentkit, wallet_data,
                   providers, phase, persisted, bridge, last,
                   agent_tools, backend, console>>

\* chatbot.py:446: wallet_provider = new_provider
SwitchCommitProvider(t) ==
    /\ At(t, "446")
    /\ wallet_provider' = threads[t].provider
    /\ Goto(t, "449")
    /\ UNCHANGED <<current_chain_id, wallet_providers_cache, agentkit, wallet_data,
                   providers, phase, persisted, bridge, last,
                   agent_tools, backend, console>>

\* chatbot.py:449-468: agentkit is rebuilt on the new provider and the
\* message is made from the globals as they are now
SwitchReturn(t) ==
    /\ At(t, "449")
    /\ agentkit' = threads[t].provider
    /\ threads' = [threads EXCEPT ![t].pc = "done",
                                  ![t].result = SwitchedMessage(current_chain_id)]
    /\ UNCHANGED <<current_chain_id, wallet_provider, wallet_providers_cache,
                   wallet_data, providers, phase, persisted, bridge, last,
                   agent_tools, backend, console>>

\* parse_mint_args passes the global wallet_provider to crosschain_mint
\* (chatbot.py:702), which calls invoke_contract_function.
StartWrite(t) ==
    /\ At(t, "idle")
    /\ threads' = [threads EXCEPT ![t] =
                      [Idle EXCEPT !.op = "invoke_contract_function", !.pc = "549",
                                   !.arg = "crosschainMint",
                                   !.provider = wallet_provider]]
    /\ UNCHANGED <<current_chain_id, wallet_provider, wallet_providers_cache,
                   agentkit, wallet_data, providers, phase, persisted, bridge, last,
                   agent_tools, backend, console>>

\* chatbot.py:549-551
WriteCheck(t) ==
    /\ At(t, "549")
    /\ IF ChainAffinity(ProviderChain(threads[t].provider))
       THEN threads' = [threads EXCEPT ![t].pc = "556",
                                       ![t].checked = current_chain_id]
       ELSE threads' = [threads EXCEPT
                           ![t].pc = "done",
                           ![t].result = [error |-> WriteMismatchMessage(
                                             ProviderChain(threads[t].provider))]]
    /\ UNCHANGED <<current_chain_id, wallet_provider, wallet_providers_cache,
                   agentkit, wallet_data, providers, phase, persisted, bridge, last,
                   agent_tools, backend, console>>

\* chatbot.py:556: get_contract_address() looks current_chain_id up
WriteAddress(t) ==
    /\ At(t, "556")
    /\ threads' = [threads EXCEPT ![t].pc = "559",
                                  ![t].address_of = current_chain_id]
    /\ UNCHANGED <<current_chain_id, wallet_provider, wallet_providers_cache,
                   agentkit, wallet_data, providers, phase, persisted, bridge, last,
                   agent_tools, backend, console>>

\* chatbot.py:559-568: the submission, and the wait for its receipt
WriteSubmit(t) ==
    /\ At(t, "559")
    /\ \E tx_hash \in TxHashes :
         threads' = [threads EXCEPT
                        ![t].pc = "570",
                        ![t].tx = Submission(threads[t].provider,
                                             get_contract_address(threads[t].address_of),
                                             threads[t].arg, tx_hash)]
    /\ UNCHANGED <<current_chain_id, wallet_provider, wallet_providers_cache,
                   agentkit, wallet_data, providers, phase, persisted, bridge, last,
                   agent_tools, backend, console>>

\* chatbot.py:570-579: the result is made from the globals as they are now
WriteReturn(t) ==
    /\ At(t, "570")
    /\ LET tx_hash == threads[t].tx[1].tx_hash IN
       threads' = [threads EXCEPT
                      ![t].pc = "done",
                      ![t].result =
                          [tx_hash |-> tx_hash, receipt |-> Receipt(tx_hash),
                           chain_id |-> current_chain_id,
                           chain_name |-> get_chain_name(current_chain_id),
                           explorer_url |->
                               ExplorerLink(get_explorer_url(current_chain_id),
                                            tx_hash)]]
    /\ UNCHANGED <<current_chain_id, wallet_provider, wallet_providers_cache,
                   agentkit, wallet_data, providers, phase, persisted, bridge, last,
                   agent_tools, backend, console>>

RaceNext ==
    \E t \in Threads :
        \/ StartSwitch(t)
        \/ SwitchCheck(t)
        \/ SwitchDelete(t)
        \/ StartCreate(t)
        \/ CreateLookup(t)
        \/ CreateRead(t)
        \/ CreateConstruct(t)
        \/ CreateRaises(t)
        \/ CreatePut(t)
        \/ CreateOpen(t)
        \/ CreateWrite(t)
        \/ SwitchCommitChain(t)
        \/ SwitchCommitProvider(t)
        \/ SwitchReturn(t)
        \/ StartWrite(t)
        \/ WriteCheck(t)
        \/ WriteAddress(t)
        \/ WriteSubmit(t)
        \/ WriteReturn(t)

RaceSpec == RaceInit /\ [][RaceNext]_vars

----------------------------------------------------------------------------
(* Vocabulary of the properties *)

Range(seq) == {seq[i] : i \in 1..Len(seq)}

IsSwitch == last.op = "switch_network"

IsWrite == last.op = "invoke_contract_function"

IsRead == last.op = "read_contract"

\* The result string of a switch is an error result.
SwitchError == StartsWith(last.result, "Error")

\* The last handler left the session state (active chain, active provider) alone.
SessionUnchanged ==
    /\ current_chain_id = last.pre.chain
    /\ wallet_provider = last.pre.provider

\* The last switch constructed a provider for its target and got it back from
\* get_cdp_wallet_provider_for_chain; it is the cache entry of the target.
SwitchCreated == IsSwitch /\ "file.write" \in Range(last.calls)

FreshProvider == wallet_providers_cache[last.arg]

\* The fresh provider reports a chain other than the target, and the call that
\* asks it (line 432) returned.
MismatchCase ==
    /\ SwitchCreated
    /\ last.exc = ""
    /\ ProviderChain(FreshProvider) # last.arg

\* The liveness probe of line 438 raised.
ProbeFailedCase ==
    /\ SwitchCreated
    /\ last.exc # ""
    /\ last.calls[Len(last.calls)] = "get_balance"

NetworkCalls == {"transact_contract", "wait_for_transaction_receipt", "read_contract"}

----------------------------------------------------------------------------
(* C1: while the program runs, a non-null active provider reports the      *)
(* active chain id.                                                        *)
C1_SessionInvariant ==
    (phase = "running" /\ wallet_provider # None)
        => ProviderChain(wallet_provider) = current_chain_id

(* C2: a switch that returns an error result, whatever step failed, leaves *)
(* the active chain id and the active provider as they were before it.     *)
C2_SwitchAllOrNothing ==
    (IsSwitch /\ SwitchError) => SessionUnchanged

(* C3: when the fresh provider of the target reports another chain, the    *)
(* switch returns a chain-mismatch error; when its native-balance read     *)
(* raises, the switch returns an error carrying the raised message; both   *)
(* leave the active chain id and the active provider unchanged.            *)
C3_FailedCheckAborts ==
    /\ MismatchCase =>
          /\ SwitchError
          /\ Contains(last.result, "chain mismatch")
          /\ SessionUnchanged
    /\ ProbeFailedCase =>
          /\ SwitchError
          /\ Contains(last.result, last.exc)
          /\ SessionUnchanged

C3_Witness ==
    /\ MismatchCase
    /\ last.pre.provider # None
    /\ ProviderChain(FreshProvider) = last.pre.chain

C3_WitnessProbe == ProbeFailedCase /\ last.exc = "timed out"

(* C4: a switch to an id that is no registry key returns an error string   *)
(* that contains "not supported" and every supported id, makes no call,    *)
(* creates no provider, and leaves the active chain id, the active         *)
(* provider, the cache and the snapshot unchanged.                         *)
C4_UnsupportedRejected ==
    (IsSwitch /\ last.arg \notin DOMAIN SUPPORTED_CHAINS) =>
        /\ SwitchError
        /\ Contains(last.result, "not supported")
        /\ \A i \in 1..Len(SupportedKeys) : Contains(last.result, SupportedKeys[i])
        /\ last.calls = << >>
        /\ SessionUnchanged
        /\ wallet_providers_cache = last.pre.cache
        /\ wallet_data = last.pre.data

C4_Witness ==
    /\ IsSwitch
    /\ last.arg = UnsupportedId
    /\ DOMAIN wallet_providers_cache # {}
    /\ current_chain_id # DEFAULT_CHAIN_ID

(* C5: a switch to the active chain id returns an "Already on" result,     *)
(* makes no cache access, no provider or network call and no persistence   *)
(* write, and leaves the session, the cache, the snapshot and the agentkit *)
(* unchanged.                                                              *)
C5_SameChainNoOp ==
    (IsSwitch /\ last.arg = last.pre.chain /\ last.arg \in DOMAIN SUPPORTED_CHAINS) =>
        /\ StartsWith(last.result, "Already on")
        /\ last.calls = << >>
        /\ SessionUnchanged
        /\ wallet_providers_cache = last.pre.cache
        /\ wallet_data = last.pre.data
        /\ agentkit = last.pre.kit

C5_Witness ==
    /\ IsSwitch
    /\ last.arg = last.pre.chain
    /\ last.arg \in DOMAIN wallet_providers_cache

(* C6: after a switch to B that returns a success result ("Already on"     *)
(* included) the active chain id is B, a write through the active provider *)
(* passes the chain-affinity check, and a write through a provider still   *)
(* bound to the previous chain A returns a chain-mismatch error.           *)
C6_AffinityAfterSwitch ==
    (IsSwitch /\ ~SwitchError) =>
        /\ current_chain_id = last.arg
        /\ \A f \in WriteFunctions, h \in TxHashes :
              "error" \notin
                  DOMAIN invoke_contract_function(wallet_provider, f, "none", "", h).result
        /\ \A p \in ProviderIds, f \in WriteFunctions, h \in TxHashes :
              (ProviderChain(p) = last.pre.chain /\ last.pre.chain # last.arg) =>
                  invoke_contract_function(p, f, "none", "", h).path = "mismatch"

(* C7: a write or read called with a provider whose reported chain differs *)
(* from the active chain id makes no transact_contract, no                 *)
(* wait_for_transaction_receipt and no read_contract call, and its result  *)
(* is an error starting with "Chain mismatch".                             *)
C7_ChainAffinityCheck ==
    ((IsWrite \/ IsRead) /\ last.provider # None
        /\ ProviderChain(last.provider) # current_chain_id) =>
        /\ Range(last.calls) \cap NetworkCalls = {}
        /\ "error" \in DOMAIN last.result
        /\ last.exc = "" => StartsWith(last.result.error, "Chain mismatch")

C7_Witness ==
    /\ IsWrite
    /\ last.provider # None
    /\ ProviderChain(last.provider) # current_chain_id
    /\ last.exc = ""
    /\ last.provider = wallet_provider

C7_WitnessRead ==
    /\ IsRead
    /\ last.provider # None
    /\ ProviderChain(last.provider) # current_chain_id
    /\ last.exc = ""

(* C8: whatever the provider does (get_network, the submission, the        *)
(* receipt wait or the contract read raises, or the provider is null), a   *)
(* write or read returns a result with an 'error' entry, and it leaves the *)
(* active chain id, the active provider and the cache unchanged.           *)
C8_FailuresAreData ==
    (IsWrite \/ IsRead) =>
        /\ (last.exc # "" \/ last.provider = None) => "error" \in DOMAIN last.result
        /\ SessionUnchanged
        /\ wallet_providers_cache = last.pre.cache

C8_Witness ==
    /\ IsWrite
    /\ last.exc = "timed out"
    /\ "wait_for_transaction_receipt" \in Range(last.calls)

C8_WitnessNull == IsRead /\ last.provider = None

(* C9: a successful write returns the active chain id, against which the   *)
(* provider passed the affinity check, the hash the submission returned,   *)
(* and the explorer URL of that chain followed by "/tx/" and the hash; the *)
(* submission went to the registry contract address of that chain.         *)
C9_WriteResult ==
    (IsWrite /\ "tx_hash" \in DOMAIN last.result) =>
        /\ last.result.chain_id = current_chain_id
        /\ ProviderChain(last.provider) = last.result.chain_id
        /\ last.tx # NoTx
        /\ last.result.tx_hash = last.tx[1].tx_hash
        /\ last.tx[1].on = last.result.chain_id
        /\ last.tx[1].contract_address
               = RegistryTable[last.result.chain_id].contract_address
        /\ last.result.explorer_url
               = RegistryTable[last.result.chain_id].explorer_url
                     \o "/tx/" \o last.tx[1].tx_hash

C9_Witness ==
    /\ IsWrite
    /\ "tx_hash" \in DOMAIN last.result
    /\ last.result.chain_id # DEFAULT_CHAIN_ID
    /\ last.result.tx_hash = "0xbb"

(* C10: when the submission of a write returned a hash and the receipt     *)
(* wait then failed, the result carries that transaction hash.             *)
C10_WaitFailureCarriesHash ==
    (IsWrite /\ last.tx # NoTx /\ last.exc # "") =>
        /\ "tx_hash" \in DOMAIN last.result
        /\ last.result.tx_hash = last.tx[1].tx_hash

----------------------------------------------------------------------------
(* The provider cache *)

IsCreate == last.op = "get_cdp_wallet_provider_for_chain"

\* The number of times call x was made in a sequence of calls.
Count(calls, x) == Cardinality({i \in 1..Len(calls) : calls[i] = x})

\* C11: two calls of get_cdp_wallet_provider_for_chain in sequence with the
\* same chain id and no deletion of the entry in between return the same
\* provider object; the second call constructs no provider, reads no
\* snapshot and changes nothing, whatever the environment would answer; and
\* when the first call was a miss, the two calls together write the snapshot
\* exactly once (in the first call).
C11_CacheHitIdempotent ==
    (IsCreate /\ ~last.raised) =>
        \A reported \in ReportedIds, failAt \in CreateFails \cup {"none"}, msg \in Msgs :
            LET second == get_cdp_wallet_provider_for_chain(
                              [cache |-> wallet_providers_cache,
                               providers |-> providers, data |-> wallet_data],
                              last.arg, reported, failAt, msg)
            IN  /\ ~second.exc
                /\ second.ret = last.result
                /\ "CdpWalletProvider" \notin Range(second.calls)
                /\ "file.read" \notin Range(second.calls)
                /\ "file.write" \notin Range(second.calls)
                /\ second.cache = wallet_providers_cache
                /\ second.providers = providers
                /\ second.data = wallet_data
                /\ (~(last.arg \in DOMAIN last.pre.cache)
                       => Count(last.calls \o second.calls, "file.write") = 1)

\* A first call that missed, constructed a provider and returned it.
C11_Witness ==
    /\ IsCreate
    /\ ~last.raised
    /\ ~(last.arg \in DOMAIN last.pre.cache)
    /\ "CdpWalletProvider" \in Range(last.calls)
    /\ last.arg \in DOMAIN wallet_providers_cache
    /\ wallet_providers_cache[last.arg] = last.result

\* C12: in every reachable state, also after an exception inside
\* get_cdp_wallet_provider_for_chain, a provider is in the cache only if its
\* exported wallet was written to the snapshot file; and a cache hit writes
\* nothing.
C12_CachedOnlyIfPersisted ==
    /\ \A c \in DOMAIN wallet_providers_cache : wallet_providers_cache[c] \in persisted
    /\ (IsCreate /\ last.arg \in DOMAIN last.pre.cache)
           => "file.write" \notin Range(last.calls)

----------------------------------------------------------------------------
(* The tools *)

DomainTools ==
    {"parse_mint_args", "parse_burn_args", "parse_balance_of_args",
     "parse_deposit_eth_args", "parse_withdraw_args"}

SessionTools ==
    {"parse_switch_network_args", "parse_get_current_network", "parse_verify_chains"}

IsDomainTool == last.op \in DomainTools

IsTool == last.op \in DomainTools \cup SessionTools

\* The contract call of the last tool run went through: the write was
\* submitted and its receipt came, or the read returned.
ContractCallDone ==
    /\ last.exc = ""
    /\ \/ last.tx # NoTx
       \/ "read_contract" \in Range(last.calls)

C16_ToolsNeverRaise == IsTool => ~last.raised

\* The input of the last tool run is one its tool has to reject.
InvalidInput ==
    \/ /\ last.op \in {"parse_mint_args", "parse_burn_args"}
       /\ InvalidTransferInput(last.arg)
    \/ /\ last.op = "parse_balance_of_args"
       /\ ~StartsWith(strip(last.arg), "0x")
    \/ /\ last.op = "parse_deposit_eth_args"
       /\ ~IsFloat(last.arg)
    \/ /\ last.op = "parse_withdraw_args"
       /\ ~IsInt(last.arg)

\* C20: a domain tool given a malformed input (wrong number of words, an
\* address without the 0x prefix, an amount that is no integer, or no number
\* for a deposit) returns a string that begins with "Error: ", calls no
\* provider and leaves the state as it was.
C20_InvalidInputRejected ==
    (IsDomainTool /\ InvalidInput) =>
        /\ StartsWith(last.result, "Error: ")
        /\ ~last.raised
        /\ last.calls = << >>
        /\ last.tx = NoTx
        /\ Globals = last.pre

\* The mint tool turned down an address without the prefix.
C20_Witness ==
    /\ last.op = "parse_mint_args"
    /\ InvalidInput
    /\ Len(split(last.arg)) = 2
    /\ IsInt(split(last.arg)[2])
    /\ StartsWith(last.result, "Error: ")

----------------------------------------------------------------------------
(* Bridging *)

\* The last tool call was a step of the bridging under way.
IsBridgeStep == bridge.phase # "idle" /\ last.op # "none"

\* C13: when the burn of a bridging succeeded and a later step (the switch to
\* the destination or the mint) fails, the outcome reported for that step is
\* a partial-failure status of its own that carries the hash of the burn
\* transaction, never a plain error.
C13_PartialFailureReported ==
    (/\ IsBridgeStep
     /\ bridge.phase \in {"switch_done", "mint_done"}
     /\ bridge.burn_ok
     /\ last.raised \/ IsErrorMessage(last.result)) =>
        /\ ~last.raised
        /\ Contains(last.result, bridge.burn_hash)

\* C14: the steps of a bridging from A to B run in the order burn on A,
\* switch to B, mint; the mint is attempted only if the burn succeeded and
\* the switch to B succeeded, so the mint of a bridging is never submitted
\* on a chain other than B.
C14_MintOnlyOnDestination ==
    (IsBridgeStep /\ bridge.phase = "mint_done" /\ last.calls # << >>) =>
        /\ bridge.burn_ok
        /\ bridge.switch_ok
        /\ last.tx # NoTx => last.tx[1].on = bridge.dst

----------------------------------------------------------------------------
(* Tool calls at the same time *)

\* The thread is inside its call: it has started and has not returned.
InFlight(t) == threads[t].pc \notin {"idle", "done"}

IsSwitchThread(t) == threads[t].op = "switch_network"

IsWriteThread(t) == threads[t].op = "invoke_contract_function"

\* Every call that was started has returned, and two were.
AllReturned == \A t \in Threads : threads[t].pc = "done"

\* C17: a write that runs at the same time as a switch never submits through
\* a provider on a chain other than the chain whose contract address it
\* submits to, and its result reports the chain that was active when its
\* affinity check passed: check and submission are one step with respect to
\* the assignments of the switch.
C17_WriteAtomicWithSwitch ==
    \A t \in Threads :
        IsWriteThread(t) =>
            /\ threads[t].tx # NoTx =>
                   /\ threads[t].tx[1].on = threads[t].address_of
                   /\ threads[t].address_of = threads[t].checked
            /\ (threads[t].pc = "done" /\ threads[t].tx # NoTx) =>
                   /\ threads[t].result.chain_id = threads[t].checked
                   /\ threads[t].result.explorer_url =
                          ExplorerLink(get_explorer_url(threads[t].checked),
                                       threads[t].tx[1].tx_hash)

\* C18: at most one switch is in flight at any time; the active chain id is
\* never seen together with a provider of another chain; and when all switch
\* calls have returned the active provider is the one of the active chain.
C18_SwitchesSerialized ==
    /\ Cardinality({t \in Threads : IsSwitchThread(t) /\ InFlight(t)}) <= 1
    /\ ProviderChain(wallet_provider) = current_chain_id
    /\ AllReturned => ProviderChain(wallet_provider) = current_chain_id

\* Both threads ran get_cdp_wallet_provider_for_chain (by itself or inside a
\* switch), for different chains.
CreatedTogether ==
    /\ \A t \in Threads : ~IsWriteThread(t)
    /\ threads["t1"].arg # threads["t2"].arg

\* C19: when calls of get_cdp_wallet_provider_for_chain for different chains
\* missed the cache at the same time and have returned, the snapshot holds
\* the wallet of every provider that is in the cache: no wallet a
\* construction made is lost.
C19_SnapshotHoldsCachedWallets ==
    (AllReturned /\ CreatedTogether) =>
        \A c \in DOMAIN wallet_providers_cache :
            providers[wallet_providers_cache[c]].wallet = wallet_data

----------------------------------------------------------------------------
(* The round trip against the chain backend *)

IsDeposit == last.op = "parse_deposit_eth_args"

IsWithdraw == last.op = "parse_withdraw_args"

\* The last write tool reported success: its transaction was submitted and
\* its receipt came.
WriteSucceeded == last.tx # NoTx /\ last.exc = ""

\* The balance of the sender of the last transaction, on its chain, before
\* and after it.
BalanceBefore == BalanceAt(backend.previous, last.tx[1].on, Sender(last.tx[1]))

BalanceAfter == BalanceAt(backend.ledger, last.tx[1].on, Sender(last.tx[1]))

\* balance_of(self), called now, with the read answered by the backend.
BalanceOfSelf ==
    parse_balance_of_args(SelfAddress, "none", "", "5000",
                          BackendRead(ActiveProvider, SelfAddress))

\* balance_of(self) is answered on the chain of the last transaction, for its
\* sender, and shows the amount.
ShowsOnChain(amount) ==
    /\ BalanceOfSelf.provider = last.tx[1].via
    /\ "read_contract" \in Range(BalanceOfSelf.calls)
    /\ Contains(BalanceOfSelf.result,
                "Balance of " \o Sender(last.tx[1]) \o " on "
                    \o get_chain_name(last.tx[1].on) \o ": " \o WeiStr(amount)
                    \o " tokens")

\* The amount of the last deposit is above 0.
PositiveDeposit ==
    LET d == DecimalOf(last.arg) IN
    ~d.neg /\ ~(d.whole = "0" /\ LeadingZeros(d.frac) = Len(d.frac))

\* C21, as stated: after a successful deposit(x) with x > 0, balance_of(self)
\* shows, on the chain of the deposit, a balance strictly larger than before
\* it; after a successful withdraw(y) with y at most the balance it shows,
\* on the chain of the withdrawal, a strictly smaller balance.
C21_RoundTrip ==
    /\ (IsDeposit /\ WriteSucceeded /\ PositiveDeposit) =>
           /\ ShowsOnChain(BalanceAfter)
           /\ WeiLess(BalanceBefore, BalanceAfter)
    /\ (IsWithdraw /\ WriteSucceeded
            /\ ~WeiLess(BalanceBefore, WeiOf(ParseInt(last.arg)))) =>
           /\ ShowsOnChain(BalanceAfter)
           /\ WeiLess(BalanceAfter, BalanceBefore)

\* C21, amended: the same for a deposit(x) whose value is one base unit at
\* least (x >= 10^-18, so that line 565 does not cut it to 0) and for a
\* withdraw(y) with 0 < y.
C21_RoundTripAboveZero ==
    /\ (IsDeposit /\ WriteSucceeded /\ PositiveDeposit
            /\ LeadingZeros(DecimalOf(last.arg).frac) < 18) =>
           /\ ShowsOnChain(BalanceAfter)
           /\ WeiLess(BalanceBefore, BalanceAfter)
    /\ (IsWithdraw /\ WriteSucceeded
            /\ ParseInt(last.arg) > 0
            /\ ~WeiLess(BalanceBefore, WeiOf(ParseInt(last.arg)))) =>
           /\ ShowsOnChain(BalanceAfter)
           /\ WeiLess(BalanceAfter, BalanceBefore)

\* A deposit that went through on a chain the session was switched to.
C21_Witness ==
    /\ IsDeposit
    /\ WriteSucceeded
    /\ last.tx[1].on # DEFAULT_CHAIN_ID
    /\ BalanceAfter = Wei(10000000, 0)

\* A withdrawal of 100 that went through after a deposit.
C21_WitnessWithdraw ==
    /\ IsWithdraw
    /\ WriteSucceeded
    /\ ParseInt(last.arg) = 100
    /\ BalanceAfter = Wei(9999999, 999999900)

----------------------------------------------------------------------------
(* The order of the steps of a switch *)

\* The last switch assigned the session (chatbot.py:445-446).
Committed ==
    /\ IsSwitch
    /\ current_chain_id # last.pre.chain \/ wallet_provider # last.pre.provider

\* The calls w, x, y, z were made in this order.
InOrder(calls, w, x, y, z) ==
    \E i, j, k, l \in 1..Len(calls) :
        /\ i < j /\ j < k /\ k < l
        /\ calls[i] = w /\ calls[j] = x /\ calls[k] = y /\ calls[l] = z

\* C22: a switch assigns the active chain id and the active provider the
\* values of its target only after, in the same call and in this order, the
\* registry check passed, the cache entry of the target was deleted and a
\* provider constructed, that provider was asked for its chain and reported
\* the target, and its native balance was read and the read returned.
C22_CommitOrdering ==
    Committed =>
        /\ last.arg \in DOMAIN SUPPORTED_CHAINS
        /\ current_chain_id = last.arg
        /\ wallet_provider # last.pre.provider
        /\ last.arg \in DOMAIN last.pre.cache =>
               InOrder(last.calls, "cache.del", "CdpWalletProvider", "get_network",
                       "get_balance")
        /\ InOrder(last.calls, "CdpWalletProvider", "file.write", "get_network",
                   "get_balance")
        /\ ProviderChain(wallet_provider) = last.arg
        /\ last.calls[Len(last.calls)] # "get_balance"
        /\ Count(last.calls, "get_balance") = 1

\* A switch that went through to a chain that had a cache entry, with the
\* provider made from the stored wallet.
C22_Witness ==
    /\ Committed
    /\ ~SwitchError
    /\ last.arg \in DOMAIN last.pre.cache
    /\ "file.read" \in Range(last.calls)
    /\ wallet_provider = Len(providers)

\* The last call was a switch to a registry chain other than the active one.
SwitchAway ==
    /\ IsSwitch
    /\ last.arg \in DOMAIN SUPPORTED_CHAINS
    /\ last.arg # last.pre.chain

\* The providers the cache held before the last call.
CachedBefore == {last.pre.cache[c] : c \in DOMAIN last.pre.cache}

\* C23: a switch to a chain other than the active one never makes a provider
\* active that was in the cache before: the entry of the target is removed
\* first, the provider that becomes active was constructed in that call,
\* and after a successful switch the cache entry of the target is that
\* provider.
C23_SwitchCommitsFreshProvider ==
    SwitchAway =>
        /\ last.arg \in DOMAIN last.pre.cache =>
               \/ last.arg \notin DOMAIN wallet_providers_cache
               \/ wallet_providers_cache[last.arg] # last.pre.cache[last.arg]
        /\ Committed =>
               /\ wallet_provider \notin CachedBefore
               /\ "CdpWalletProvider" \in Range(last.calls)
               /\ "cache.get" \notin Range(last.calls)
               /\ wallet_provider = Len(providers)
        /\ ~SwitchError =>
               /\ last.arg \in DOMAIN wallet_providers_cache
               /\ wallet_providers_cache[last.arg] = wallet_provider

\* A switch that went through to a chain whose cache entry held a provider
\* made by an earlier call.
C23_Witness ==
    /\ SwitchAway
    /\ ~SwitchError
    /\ last.arg \in DOMAIN last.pre.cache
    /\ last.pre.cache[last.arg] # wallet_provider
    /\ wallet_providers_cache[last.arg] = wallet_provider

----------------------------------------------------------------------------
(* What is bound to the provider beside the session *)

\* The last call was the switch tool and it reported a switch.
SwitchToolSwitched ==
    /\ last.op = "parse_switch_network_args"
    /\ ~last.raised
    /\ StartsWith(last.result, "Switched to")

\* C24: after every successful switch the agentkit object and the tools the
\* agent uses are bound to the new active provider, and in every reachable
\* state a non-null agentkit is bound to the active provider.
C24_BindingsFollowSession ==
    /\ agentkit # None => agentkit = wallet_provider
    /\ SwitchToolSwitched =>
           /\ agentkit = wallet_provider
           /\ agent_tools = wallet_provider

----------------------------------------------------------------------------
(* The order of the steps of a write *)

\* Call x was made before call y.
Before(calls, x, y) ==
    \E i, j \in 1..Len(calls) : i < j /\ calls[i] = x /\ calls[j] = y

\* C25: within one write the receipt wait is started only after the
\* submission returned a hash, a success result is returned only after the
\* receipt wait returned, no receipt wait is made when the submission
\* failed, and one transaction at most is submitted.
C25_WriteOrdering ==
    IsWrite =>
        /\ Count(last.calls, "transact_contract") <= 1
        /\ Len(last.tx) <= 1
        /\ "wait_for_transaction_receipt" \in Range(last.calls) =>
               /\ last.tx # NoTx
               /\ Before(last.calls, "transact_contract", "wait_for_transaction_receipt")
        /\ "tx_hash" \in DOMAIN last.result =>
               /\ last.exc = ""
               /\ "wait_for_transaction_receipt" \in Range(last.calls)
               /\ last.result.receipt = Receipt(last.tx[1].tx_hash)
        /\ last.tx = NoTx => "wait_for_transaction_receipt" \notin Range(last.calls)

\* A write whose submission raised.
C25_Witness ==
    /\ IsWrite
    /\ last.exc = "connection refused"
    /\ last.calls[Len(last.calls)] = "transact_contract"
    /\ last.tx = NoTx

\* A write that returned its success result.
C25_WitnessSuccess ==
    /\ IsWrite
    /\ "tx_hash" \in DOMAIN last.result
    /\ last.calls[Len(last.calls)] = "wait_for_transaction_receipt"

----------------------------------------------------------------------------
(* The reads of the balance tool *)

\* The balance tool was called while the active provider reported a chain
\* other than the active chain id.
BalanceOnMismatch ==
    /\ last.op = "parse_balance_of_args"
    /\ last.pre.provider # None
    /\ ProviderChain(last.pre.provider) # last.pre.chain

\* C26: when the active provider reports a chain other than the active chain
\* id, balance_of reads nothing through it, neither the native balance nor
\* balanceOf, and reports no balance under the name of the active chain.
C26_BalanceReadsGuarded ==
    BalanceOnMismatch =>
        /\ "get_balance" \notin Range(last.calls)
        /\ "read_contract" \notin Range(last.calls)
        /\ ~Contains(last.result, "balance on " \o get_chain_name(last.pre.chain))

----------------------------------------------------------------------------
(* Who holds the providers *)

\* The active provider is the cache entry of the active chain id.
ActiveIsCached ==
    /\ current_chain_id \in DOMAIN wallet_providers_cache
    /\ wallet_providers_cache[current_chain_id] = wallet_provider

\* C27: whenever the active provider is non-null, the cache holds an entry
\* for the active chain id and that entry is the active provider object;
\* so it is after initialize_agent, after every switch and after
\* verify_all_chains.
C27_ActiveProviderIsCacheEntry == wallet_provider # None => ActiveIsCached

----------------------------------------------------------------------------
(* A provider that reports another chain than it was made for *)

\* The last call of get_cdp_wallet_provider_for_chain missed the cache, no
\* external call of it raised, and the provider it constructed reports a
\* chain other than the one asked for.
MissWithMismatch ==
    /\ IsCreate
    /\ last.arg \notin DOMAIN last.pre.cache
    /\ last.exc = ""
    /\ "get_network" \in Range(last.calls)
    /\ ProviderChain(Len(providers)) # last.arg

----------------------------------------------------------------------------
(* What leaves the cache *)

\* The entry of chain c was in the cache before the last call and is in it
\* after, bound to the same provider.
EntryKept(c) ==
    /\ c \in DOMAIN wallet_providers_cache
    /\ wallet_providers_cache[c] = last.pre.cache[c]

\* C29: no call removes or rebinds an entry of the cache, except a switch to
\* a registry chain other than the active one, and that switch only the
\* entry of its target: every entry the cache held before a call is in it
\* after the call with the same provider, but for the target of such a
\* switch.
C29_OnlySwitchEvictsItsTarget ==
    last.op # "none" =>
        \A c \in DOMAIN last.pre.cache :
            (SwitchAway /\ c = last.arg) \/ EntryKept(c)

\* A switch whose target had an entry lost it, the construction having
\* failed, while the entry of another chain stayed.
C29_Witness ==
    /\ SwitchAway
    /\ last.arg \in DOMAIN last.pre.cache
    /\ last.arg \notin DOMAIN wallet_providers_cache
    /\ \E c \in DOMAIN last.pre.cache : c # last.arg /\ EntryKept(c)

\* A call of get_cdp_wallet_provider_for_chain that added an entry left the
\* entries the cache held.
C29_WitnessCreate ==
    /\ IsCreate
    /\ DOMAIN last.pre.cache # {}
    /\ DOMAIN wallet_providers_cache # DOMAIN last.pre.cache
    /\ \A c \in DOMAIN last.pre.cache : EntryKept(c)

----------------------------------------------------------------------------
(* The report of verify_all_chains *)

IsVerify == last.op = "parse_verify_chains"

\* The positions of the line breaks of a text.
LineBreaks(s) == {i \in 1..Len(s) : SubSeq(s, i, i) = "\n"}

\* The lines of a text, as str.split("\n") gives them.
TextLines(s) ==
    LET breaks == LineBreaks(s)
        \* the k-th line break, the start and the end of the text included
        break(k) == IF k = 0 THEN 0
                    ELSE IF k > Cardinality(breaks) THEN Len(s) + 1
                    ELSE CHOOSE i \in breaks :
                             Cardinality({j \in breaks : j < i}) = k - 1
    IN  [k \in 1..(Cardinality(breaks) + 1) |->
            SubSeq(s, break(k - 1) + 1, break(k) - 1)]

\* What a line of the report about a chain begins with, after the mark.
ChainLabel(chain_id) ==
    " " \o SUPPORTED_CHAINS[chain_id].name \o " (Chain " \o chain_id \o "): "

LineVerified(line, chain_id) == StartsWith(line, OkMark \o ChainLabel(chain_id))

LineFailed(line, chain_id) == StartsWith(line, FailMark \o ChainLabel(chain_id))

\* C30: verify_all_chains leaves the active chain id and the active
\* provider as they were and raises nothing; its result is the header line
\* followed by one line for each registry chain, in registry order, each a
\* success line or a failure line of that chain, so a chain that fails while
\* its provider is created or probed does not keep the chains after it from
\* being checked; no chain is probed twice.
C30_VerifyFrameAndIsolation ==
    IsVerify =>
        LET report == TextLines(last.result) IN
        /\ ~last.raised
        /\ current_chain_id = last.pre.chain
        /\ wallet_provider = last.pre.provider
        /\ Len(report) = 1 + Len(SupportedKeys)
        /\ report[1] = VerifyHeader
        /\ \A i \in 1..Len(SupportedKeys) :
               LineVerified(report[i + 1], SupportedKeys[i])
                   /= LineFailed(report[i + 1], SupportedKeys[i])
        /\ Count(last.calls, "get_balance") <= Len(SupportedKeys)
        /\ Count(last.calls, "CdpWalletProvider") <= Len(SupportedKeys)

\* The first registry chain failed while its provider was constructed and
\* the chain after it was verified.
C30_Witness ==
    /\ IsVerify
    /\ LET report == TextLines(last.result) IN
       /\ Len(report) = 1 + Len(SupportedKeys)
       /\ LineFailed(report[2], SupportedKeys[1])
       /\ LineVerified(report[3], SupportedKeys[2])
    /\ Count(last.calls, "CdpWalletProvider") = 2
    /\ Count(last.calls, "get_balance") = 1

\* C31: verify_all_chains probes, for every registry chain, a provider that
\* was constructed during that call: it constructs one provider per chain
\* and none of the providers the cache holds after it was in the cache
\* before.
C31_VerifyProbesFreshProviders ==
    IsVerify =>
        /\ Count(last.calls, "CdpWalletProvider") = Len(SupportedKeys)
        /\ \A c \in DOMAIN wallet_providers_cache :
               wallet_providers_cache[c] \notin CachedBefore

----------------------------------------------------------------------------
(* The native value of a deposit *)

\* v times 10^18 cut toward zero, for the amounts v >= 0 that are deposited.
BaseUnits ==
    [v \in {"0.01", "0.0000000000000000001", "0.0000000000000000019", "0"} |->
        CASE v = "0.01" -> Wei(10000000, 0)
          [] v = "0.0000000000000000019" -> Wei(0, 1)
          [] OTHER -> WeiZero]

NegativeDeposit == IsDeposit /\ last.arg = "-0.5"

\* The first part of C32: a deposit of v >= 0 that is submitted carries the
\* value v times 10^18 cut toward zero, which is 0 for v = 0.
ValueInBaseUnits ==
    (IsDeposit /\ last.arg \in DOMAIN BaseUnits /\ last.tx # NoTx) =>
        last.tx[1].value = BaseUnits[last.arg]

\* C32: a write with the decimal native value v submits v times 10^18 cut
\* toward zero when v > 0 and 0 when v = 0; a deposit of a negative amount
\* is rejected with an error and submits no transaction.
C32_NativeValueConversion ==
    /\ ValueInBaseUnits
    /\ NegativeDeposit =>
           /\ last.tx = NoTx
           /\ "transact_contract" \notin Range(last.calls)
           /\ StartsWith(last.result, "Error")

----------------------------------------------------------------------------
(* The start of the session *)

IsInit == last.op = "initialize_agent"

\* The calls that build the agent and its tools (chatbot.py:846, 862, 908).
BuildCalls == {"AgentKit", "get_langchain_tools", "create_react_agent"}

\* Every call of xs is after the last call x.
AllAfter(calls, x, xs) ==
    \A i, j \in 1..Len(calls) : (calls[i] = x /\ calls[j] \in xs) => i < j

\* C33: initialize_agent reads the snapshot when there is one and only
\* then, and an absent snapshot makes no error; it constructs one provider;
\* it writes the snapshot once at most, and whenever the agent or its tools
\* are built the provider was constructed and the snapshot was written
\* before, once, and holds the wallet that provider exports.
C33_InitPersistsBeforeBuild ==
    IsInit =>
        /\ Count(last.calls, "file.read") = IF last.pre.data = NoFile THEN 0 ELSE 1
        /\ (last.pre.data = NoFile /\ last.raised) => last.exc \in Msgs
        /\ Count(last.calls, "CdpWalletProvider") = 1
        /\ Count(last.calls, "file.write") <= 1
        /\ (\E c \in BuildCalls : c \in Range(last.calls)) =>
               /\ Count(last.calls, "file.write") = 1
               /\ InOrder(last.calls, "os.path.exists", "CdpWalletProvider",
                          "export_wallet", "file.write")
               /\ AllAfter(last.calls, "file.write", BuildCalls)
               /\ wallet_data = providers[wallet_provider].wallet
               /\ wallet_provider \in persisted
        /\ ~last.raised =>
               /\ "create_react_agent" \in Range(last.calls)
               /\ wallet_provider = Len(providers)

\* initialize_agent returned where no snapshot was found: the file now holds
\* the wallet the new provider made.
C33_Witness ==
    /\ IsInit
    /\ ~last.raised
    /\ last.pre.data = NoFile
    /\ wallet_data = NewWallet(wallet_provider)
    /\ "create_react_agent" \in Range(last.calls)

\* initialize_agent returned where a snapshot was found and read.
C33_WitnessStored ==
    /\ IsInit
    /\ ~last.raised
    /\ last.pre.data = StoredWallet
    /\ "file.read" \in Range(last.calls)
    /\ wallet_data = StoredWallet

----------------------------------------------------------------------------
(* main() after initialize_agent, chatbot.py:936-1021: choose_mode, then   *)
(* chat mode or autonomous mode.  input(), agent_executor.stream() and     *)
(* time.sleep() are external: input returns a line, stream returns or      *)
(* raises, and a KeyboardInterrupt arrives during any of them.  console.pc *)
(* is the call main() is blocked in.                                       *)

UpperLetters == "ABCDEFGHIJKLMNOPQRSTUVWXYZ"

LowerLetters == "abcdefghijklmnopqrstuvwxyz"

LowerChar(c) ==
    IF \E i \in 1..26 : Char(UpperLetters, i) = c
    THEN Char(LowerLetters, CHOOSE i \in 1..26 : Char(UpperLetters, i) = c)
    ELSE c

\* str.lower
RECURSIVE lower(_)
lower(s) ==
    IF Len(s) = 0 THEN "" ELSE LowerChar(Char(s, 1)) \o lower(SubSeq(s, 2, Len(s)))

\* Mutant of Choice: the case of the line is kept.
Choice_CaseKept(line) == strip(line)

\* chatbot.py:1006: input("Enter choice: ").strip().lower()
Choice(line) == lower(strip(line))

\* chatbot.py:1004-1011: one turn of the loop of choose_mode on the line
\* read: the mode returned, or "" when "Invalid, please choose 1 or 2." is
\* printed and the loop goes on.
choose_mode(line) ==
    IF Choice(line) \in {"1", "chat"} THEN "chat"
    ELSE IF Choice(line) \in {"2", "auto"} THEN "auto"
    ELSE ""

\* Mutant of IsExit: only the lower-case word ends the loop.
IsExit_CaseKept(user_input) == user_input = "exit"

\* chatbot.py:980: user_input.lower() == "exit"
IsExit(user_input) == lower(user_input) = "exit"

\* chatbot.py:942-947
prompts ==
    <<"Verify all chains to ensure my wallet is recognized on each.",
      "Crosschain-burn 0.01 sETH from my address on Base Sepolia, then "
          \o "crosschain-mint 0.01 sETH on Optimism Sepolia to same address. "
          \o "Then show final balances.",
      "Switch to Ethereum Sepolia and show me my native ETH balance. Then "
          \o "switch back to Base Sepolia. Then deposit 0.001 ETH => sETH.",
      "Withdraw 50 sETH from my address. Then bridging 25 from Base to "
          \o "Optimism. Then check final sETH. If insufficient, show error.">>

\* The lines typed at "Enter choice: ".
ChoiceInputs == {"1", " Chat ", "2", "AUTO", "3", "chat mode"}

\* The lines typed at "Prompt: ".
ChatInputs == {"balance", "exit", "Exit", " exit"}

\* What a call of agent_executor.stream() or time.sleep() does.
StreamOutcomes == {"returned", "raised", "interrupted"}

SleepOutcomes == {"returned", "interrupted"}

\* The state after initialize_agent returned (chatbot.py:1016), main() at
\* choose_mode.
ModeInit ==
    /\ current_chain_id = DEFAULT_CHAIN_ID
    /\ wallet_data \in {StoredWallet, NewWallet(1)}
    /\ providers = <<[chain |-> DEFAULT_CHAIN_ID, wallet |-> wallet_data]>>
    /\ wallet_provider = 1
    /\ agentkit = 1
    /\ wallet_providers_cache = [c \in {} |-> None]
    /\ phase = "running"
    /\ persisted = {1}
    /\ bridge = NoBridge
    /\ threads = NoThreads
    /\ agent_tools = 1
    /\ backend = NoBackend
    /\ console = [NoConsole EXCEPT !.pc = "choose_mode"]
    /\ last = NoCall

\* The loops touch no global of the session themselves.
ConsoleOnly ==
    UNCHANGED <<current_chain_id, wallet_provider, wallet_providers_cache, agentkit,
                wallet_data, providers, phase, persisted, bridge, threads,
                agent_tools, backend, last>>

\* The mode ended: by a return of the function, by sys.exit(0), or by a
\* KeyboardInterrupt that no handler caught.
Ended(how, interrupted) ==
    [console EXCEPT !.pc = "done", !.exit = how,
                    !.interrupted = @ \/ interrupted]

\* chatbot.py:1004-1011 and 1018-1022: a line is read in choose_mode; on a
\* valid choice main() enters the mode.
ChooseMode ==
    /\ console.pc = "choose_mode"
    /\ Len(console.choices) < MaxLines
    /\ \E line \in ChoiceInputs :
         LET mode == choose_mode(line) IN
         console' = [console EXCEPT
                        !.choices = Append(@, line),
                        !.invalid = IF mode = "" THEN @ + 1 ELSE @,
                        !.mode = mode,
                        !.pc = IF mode = "chat" THEN "chat_input"
                               ELSE IF mode = "auto" THEN "auto_stream"
                               ELSE "choose_mode"]
    /\ ConsoleOnly

\* chatbot.py:979-981 and 989-991: input() in chat mode.
ChatInput ==
    /\ console.pc = "chat_input"
    /\ Len(console.lines) < MaxLines
    /\ \/ \E user_input \in ChatInputs :
            console' = IF IsExit(user_input)
                       THEN [Ended("returned", FALSE) EXCEPT
                                !.lines = Append(@, user_input)]
                       ELSE [console EXCEPT !.lines = Append(@, user_input),
                                            !.pc = "chat_stream"]
       \/ console' = Ended("returned", TRUE)
    /\ ConsoleOnly

\* chatbot.py:983-994: the line read goes to the agent.
ChatStream ==
    /\ console.pc = "chat_stream"
    /\ \E outcome \in StreamOutcomes :
         LET called == [console EXCEPT
                           !.sent = Append(@, console.lines[Len(console.lines)]),
                           !.results = Append(@, outcome)]
         IN  console' =
                 IF outcome = "returned" THEN [called EXCEPT !.pc = "chat_input"]
                 ELSE IF outcome = "raised" THEN [called EXCEPT !.pc = "chat_sleep"]
                 ELSE [called EXCEPT !.pc = "done", !.exit = "returned",
                                     !.interrupted = TRUE]
    /\ ConsoleOnly

\* chatbot.py:994: time.sleep(1) in the handler of Exception, where no
\* handler of the try statement applies any more.
ChatSleep ==
    /\ console.pc = "chat_sleep"
    /\ \E outcome \in SleepOutcomes :
         console' = IF outcome = "returned"
                    THEN [console EXCEPT !.pc = "chat_input"]
                    ELSE Ended("KeyboardInterrupt", TRUE)
    /\ ConsoleOnly

\* chatbot.py:950-966: the next prompt of the list goes to the agent.
AutoStream ==
    /\ console.pc = "auto_stream"
    /\ Len(console.sent) < MaxPrompts
    /\ \E outcome \in StreamOutcomes :
         LET prompt == prompts[(console.idx % Len(prompts)) + 1]
             called == [console EXCEPT !.sent = Append(@, prompt),
                                       !.results = Append(@, outcome),
                                       !.idx = @ + 1]
         IN  console' =
                 IF outcome = "returned" THEN [called EXCEPT !.pc = "auto_sleep"]
                 ELSE IF outcome = "raised"
                 THEN [called EXCEPT !.pc = "auto_error_sleep"]
                 ELSE [called EXCEPT !.pc = "done", !.exit = "sys.exit(0)",
                                     !.interrupted = TRUE]
    /\ ConsoleOnly

\* chatbot.py:963-966: time.sleep(interval), inside the try statement.
AutoSleep ==
    /\ console.pc = "auto_sleep"
    /\ \E outcome \in SleepOutcomes :
         console' = IF outcome = "returned"
                    THEN [console EXCEPT !.pc = "auto_stream"]
                    ELSE Ended("sys.exit(0)", TRUE)
    /\ ConsoleOnly

\* chatbot.py:967-969: time.sleep(2) in the handler of Exception.
AutoErrorSleep ==
    /\ console.pc = "auto_error_sleep"
    /\ \E outcome \in SleepOutcomes :
         console' = IF outcome = "returned"
                    THEN [console EXCEPT !.pc = "auto_stream"]
                    ELSE Ended("KeyboardInterrupt", TRUE)
    /\ ConsoleOnly

ModeNext ==
    \/ ChooseMode
    \/ ChatInput
    \/ ChatStream
    \/ ChatSleep
    \/ AutoStream
    \/ AutoSleep
    \/ AutoErrorSleep

ModeSpec == ModeInit /\ [][ModeNext]_vars

----------------------------------------------------------------------------
(* The mode loops *)

\* What each line typed at "Enter choice: " asks for.
ChoiceMeaning ==
    [line \in ChoiceInputs |->
        IF line \in {"1", " Chat "} THEN "chat"
        ELSE IF line \in {"2", "AUTO"} THEN "auto"
        ELSE ""]

\* C34: choose_mode returns "chat" for the input "1" or "chat" and "auto"
\* for "2" or "auto", after trimming and lower-casing; every other input is
\* reported invalid and the prompt is repeated; it returns at the first valid
\* input and returns nothing but "chat" or "auto".
C34_ChooseMode ==
    LET n == Len(console.choices) IN
    /\ console.mode \in {"", "chat", "auto"}
    /\ \A i \in 1..n : i < n => ChoiceMeaning[console.choices[i]] = ""
    /\ n > 0 => console.mode = ChoiceMeaning[console.choices[n]]
    /\ console.invalid
           = Cardinality({i \in 1..n : ChoiceMeaning[console.choices[i]] = ""})
    /\ console.pc = "choose_mode" <=> console.mode = ""

\* An invalid choice, then "chat" with blanks and a capital.
C34_Witness ==
    /\ console.choices = <<"3", " Chat ">>
    /\ console.mode = "chat"
    /\ console.invalid = 1

\* The lines that end chat mode.
ExitWords == {"exit", "Exit"}

NotExitWord(line) == line \notin ExitWords

\* C35: chat mode sends every line other than "exit" (in any case) to the
\* agent once, in the order read and before the next line is read; "exit"
\* ends the loop and is not sent; an exception of the agent does not end
\* the loop.
C35_ChatForwarding ==
    console.mode = "chat" =>
        LET n == Len(console.lines) IN
        /\ \A i \in 1..n : i < n => console.lines[i] \notin ExitWords
        /\ console.pc = "chat_stream" =>
               /\ console.lines[n] \notin ExitWords
               /\ console.sent = SubSeq(console.lines, 1, n - 1)
        /\ console.pc # "chat_stream" =>
               console.sent = SelectSeq(console.lines, NotExitWord)
        /\ (n > 0 /\ console.lines[n] \in ExitWords) =>
               console.pc = "done" /\ console.exit = "returned"
        /\ (console.pc = "done" /\ ~console.interrupted) =>
               n > 0 /\ console.lines[n] \in ExitWords
        /\ console.pc = "chat_sleep" =>
               /\ console.results[Len(console.results)] = "raised"
               /\ console.exit = "none"

\* The agent raised on the first line, the second line went to it all the
\* same, and "Exit" ended the loop.
C35_Witness ==
    /\ console.mode = "chat"
    /\ console.lines = <<"balance", " exit", "Exit">>
    /\ console.sent = <<"balance", " exit">>
    /\ console.results = <<"raised", "returned">>
    /\ console.pc = "done"
    /\ ~console.interrupted

\* C36: a KeyboardInterrupt raised while autonomous mode or chat mode runs
\* ends the mode by sys.exit(0), and no prompt goes to the agent after it.
C36_InterruptExits ==
    console.interrupted =>
        /\ console.pc = "done"
        /\ console.exit = "sys.exit(0)"

----------------------------------------------------------------------------
(* The registry *)

\* C37: the active chain id is a key of the registry and every key of the
\* provider cache is a key of the registry; hence get_contract_address,
\* get_chain_name and get_explorer_url of the active chain have a value and
\* no call ends with their "not supported" error.  (The registry is the
\* definition SUPPORTED_CHAINS, which no action can change.)
C37_RegistryKeys ==
    /\ InRegistry(current_chain_id)
    /\ DOMAIN wallet_providers_cache \subseteq DOMAIN SUPPORTED_CHAINS
    /\ get_contract_address(current_chain_id)
           = RegistryTable[current_chain_id].contract_address
    /\ get_chain_name(current_chain_id) = RegistryTable[current_chain_id].name
    /\ get_explorer_url(current_chain_id)
           = RegistryTable[current_chain_id].explorer_url
    /\ last.op # "none" =>
           /\ InRegistry(last.pre.chain)
           /\ last.exc \notin {NotSupportedError(current_chain_id),
                               NotSupportedError(last.pre.chain)}

\* verify_all_chains has put a provider in the cache that reports a chain
\* outside the registry, under the registry key it was made for.
C37_Witness ==
    /\ IsVerify
    /\ \E c \in DOMAIN wallet_providers_cache :
           /\ c \notin DOMAIN last.pre.cache
           /\ ProviderChain(wallet_providers_cache[c]) \notin DOMAIN SUPPORTED_CHAINS

----------------------------------------------------------------------------
(* One wallet *)

\* The wallet of provider object p.
WalletOf(p) == providers[p].wallet

\* C38: with the calls made one after the other, the active provider and
\* every provider in the cache carry the same wallet, and wallet_data.txt
\* holds that wallet, also after a construction, an identity query or an
\* export raised.
C38_OneAddressSpace ==
    wallet_provider # None =>
        /\ wallet_data = WalletOf(wallet_provider)
        /\ \A c \in DOMAIN wallet_providers_cache :
               WalletOf(wallet_providers_cache[c]) = WalletOf(wallet_provider)

====
